---- MODULE Spec2Model ----
(***************************************************************************)
(* Ingredient resolution and recipe feasibility engine of the three        *)
(* prototypes: src/unnamed/part_000 (recipe builder), src/supaniga2.py     *)
(* (recipe finder) and src/supaniga3.py (Dishcovery).                      *)
(*                                                                         *)
(* Text is a sequence of one-character strings; an ingredient name of the  *)
(* tables is a string, spelled out as text by Chars.                       *)
(***************************************************************************)
EXTENDS Integers, Sequences, FiniteSets, TLC

VARIABLES
    proto,         \* the prototype whose function ran: "builder" (part_000), "finder" (supaniga2), "dishcovery" (supaniga3)
    name,          \* the text handed to normalize_text / the resolver
    q,             \* the text normalize_text returned (a one-element sequence), <<>> before the call
    qq,            \* the text normalize_text returned for q (a one-element sequence), <<>> before
    stage,         \* how far the calls of the current specification have got
    result,        \* the resolver's return value <<is_valid, canonical, suggestion>>, <<>> before
    outcome,       \* "none" before the resolver's call, then "returned" or "raised"
    sim,           \* the similarity scores process.extractOne saw in the call, NoSim if not called
    validated_ingredients,  \* the caller's list handed to apply_restrictions, as it is now
    given,         \* that list as the caller built it
    restrictions,  \* the active restrictions, in the order the caller gives them
    adj_ings,      \* the adjusted list apply_restrictions returned
    notes,         \* the change log apply_restrictions returned
    again,         \* <<result>> of apply_restrictions(adj_ings, restrictions), <<>> before that call
    validated,     \* supaniga3: the list handed to need_more_for_cook
    enough,        \* what need_more_for_cook returned: enough,
    reasons,       \*   reasons,
    suggestions,   \*   suggestions
    validated_ings,  \* supaniga2: the list handed to sufficiency_report
    have,          \* what sufficiency_report returned: the count per category,
    missing,       \*   the missing count per category (enough holds its ok)
    before,        \* <<report>> of the list before the last ingredient was appended, <<>> if none was
    diet_mode,     \* part_000: the sidebar's diet-mode checkbox
    shown,         \* part_000: what the recipe column showed: "none", "info", "error" or "recipe"
    cuisine,       \* what infer_cuisine returned: the cuisine, NoName for None,
    score,         \*   and its score
    confident,     \* the confidence rule's verdict
    title,         \* the dish title: <<cuisine prefix, main ingredients, ellipsis>>
    steps,         \* the steps generate_steps returned
    header_flag,   \* the flag text of the header line
    origin,        \* <<the Origin line written>>, <<>> if none was
    ingredients_raw,    \* st.session_state.ingredients_raw: the text of every slot
    ingredients_valid,  \* st.session_state.ingredients_valid: the validity flag of every slot
    rendered,      \* how many slots the last script run drew a text input for
    answers,       \* what the resolver of this server process returns for each text
    slot_made,     \* per slot, what it is since: "first", "growth", "button", or "typed" once edited
    event,         \* what the user did to cause the last script run
    prev,          \* <<the slots as they were when the last script run began>>, <<>> before any
    secrets,       \* supaniga2: the recipe APIs st.secrets holds a key for
    tips,          \* supaniga2: the categories the run listed a tip for
    can_search,    \* supaniga2: the search gate of the run
    searched,      \* the recipe source the run sent a search to, "none" if it sent none
    proceed,       \* supaniga3: <<value>> of the "search anyway" toggle if the run drew it, else <<>>
    panel          \* supaniga3: how the run met the Add More panel: "none", "read", "NameError", "stopped"

vars == <<proto, name, q, qq, stage, result, outcome, sim,
          validated_ingredients, given, restrictions, adj_ings, notes, again,
          validated, enough, reasons, suggestions,
          validated_ings, have, missing, before,
          diet_mode, shown, cuisine, score, confident, title, steps, header_flag, origin,
          ingredients_raw, ingredients_valid, rendered, answers, slot_made, event, prev,
          secrets, tips, can_search, searched, proceed, panel>>

(***************************************************************************)
(* The catalogs.                                                           *)
(***************************************************************************)
VALID_INGREDIENTS ==
    {"almond", "anchovy", "balsamic vinegar", "basil", "basmati rice", "beans", "beef",
     "bell pepper", "bread", "broccoli", "butter", "capers", "carrot", "cashew", "cheddar",
     "chicken", "chickpeas", "chili", "chili powder", "cilantro", "coconut milk", "coriander",
     "couscous", "cream", "cumin", "curry paste", "curry powder", "egg", "fish sauce",
     "garam masala", "garlic", "ghee", "ginger", "gochujang", "honey", "jasmine rice", "lemon",
     "lentils", "lime", "milk", "mint", "miso", "mozzarella", "mushroom", "mustard", "noodles",
     "nori", "olive", "olive oil", "onion", "oyster sauce", "paneer", "paprika", "parmesan",
     "parsley", "pasta", "peanut", "peanuts", "pepper", "pickles", "pork", "potato", "quinoa",
     "rice", "salmon", "salt", "sesame", "sesame oil", "shrimp", "soy sauce", "spaghetti",
     "spinach", "sriracha", "sugar", "tahini", "tempeh", "tofu", "tomato", "tomato paste",
     "tortilla", "tuna", "turmeric", "vinegar", "walnut", "yogurt"}

VALID_INGREDIENTS2 ==
    {"anchovy", "bacon", "balsamic vinegar", "basil", "basmati rice", "beans", "beef",
     "bell pepper", "blue cheese", "bread", "brie", "broccoli", "butter", "camembert", "capers",
     "carrot", "cheddar", "chicken", "chickpeas", "chili", "chili powder", "cilantro",
     "coconut milk", "coriander", "couscous", "cream", "cream cheese", "cumin", "curry paste",
     "curry powder", "egg", "feta", "fish sauce", "garam masala", "garlic", "ginger",
     "goat cheese", "gochujang", "gouda", "grana padano", "ham", "honey", "jasmine rice",
     "lemon", "lentils", "lime", "milk", "mint", "miso", "mozzarella", "mushroom", "mustard",
     "noodles", "nori", "olive", "olive oil", "onion", "oyster sauce", "paneer", "paprika",
     "parmesan", "parsley", "pasta", "pecorino", "pepper", "pickles", "pork", "potato",
     "provolone", "quinoa", "ramen noodles", "rice", "ricotta", "salmon", "salt", "sausage",
     "sesame oil", "shrimp", "soba", "soy sauce", "spaghetti", "spinach", "sriracha", "sugar",
     "tahini", "tempeh", "tofu", "tomato", "tomato paste", "tortilla", "tuna", "turmeric",
     "udon", "vinegar", "yogurt"}

VALID_INGREDIENTS3 ==
    {"anchovy", "balsamic vinegar", "basil", "beans", "beef", "bell pepper", "bread",
     "broccoli", "butter", "capers", "carrot", "cheddar", "cheese", "chicken", "chickpeas",
     "chili", "cilantro", "coconut milk", "couscous", "cream", "cream cheese", "cucumber",
     "egg", "eggs", "fish sauce", "garlic", "ginger", "gochujang", "honey", "lemon", "lentils",
     "lime", "milk", "miso", "mozzarella", "mushroom", "mustard", "noodles", "olive",
     "olive oil", "onion", "oyster sauce", "paneer", "parmesan", "parsley", "pasta", "penne",
     "pepper", "pork", "potato", "quinoa", "ramen", "rice", "salmon", "salt", "sesame oil",
     "shrimp", "soy sauce", "spaghetti", "spinach", "tahini", "tempeh", "tofu", "tomato",
     "tomato paste", "tomato sauce", "tortilla", "tuna", "udon", "vinegar", "yogurt"}

\* The characters of every catalog name, as Python's str holds them.
Spelling ==
  [n \in VALID_INGREDIENTS \cup VALID_INGREDIENTS2 \cup VALID_INGREDIENTS3 |->
    CASE n = "almond" -> <<"a","l","m","o","n","d">>
      [] n = "anchovy" -> <<"a","n","c","h","o","v","y">>
      [] n = "bacon" -> <<"b","a","c","o","n">>
      [] n = "balsamic vinegar" -> <<"b","a","l","s","a","m","i","c"," ","v","i","n","e","g","a","r">>
      [] n = "basil" -> <<"b","a","s","i","l">>
      [] n = "basmati rice" -> <<"b","a","s","m","a","t","i"," ","r","i","c","e">>
      [] n = "beans" -> <<"b","e","a","n","s">>
      [] n = "beef" -> <<"b","e","e","f">>
      [] n = "bell pepper" -> <<"b","e","l","l"," ","p","e","p","p","e","r">>
      [] n = "blue cheese" -> <<"b","l","u","e"," ","c","h","e","e","s","e">>
      [] n = "bread" -> <<"b","r","e","a","d">>
      [] n = "brie" -> <<"b","r","i","e">>
      [] n = "broccoli" -> <<"b","r","o","c","c","o","l","i">>
      [] n = "butter" -> <<"b","u","t","t","e","r">>
      [] n = "camembert" -> <<"c","a","m","e","m","b","e","r","t">>
      [] n = "capers" -> <<"c","a","p","e","r","s">>
      [] n = "carrot" -> <<"c","a","r","r","o","t">>
      [] n = "cashew" -> <<"c","a","s","h","e","w">>
      [] n = "cheddar" -> <<"c","h","e","d","d","a","r">>
      [] n = "cheese" -> <<"c","h","e","e","s","e">>
      [] n = "chicken" -> <<"c","h","i","c","k","e","n">>
      [] n = "chickpeas" -> <<"c","h","i","c","k","p","e","a","s">>
      [] n = "chili" -> <<"c","h","i","l","i">>
      [] n = "chili powder" -> <<"c","h","i","l","i"," ","p","o","w","d","e","r">>
      [] n = "cilantro" -> <<"c","i","l","a","n","t","r","o">>
      [] n = "coconut milk" -> <<"c","o","c","o","n","u","t"," ","m","i","l","k">>
      [] n = "coriander" -> <<"c","o","r","i","a","n","d","e","r">>
      [] n = "couscous" -> <<"c","o","u","s","c","o","u","s">>
      [] n = "cream" -> <<"c","r","e","a","m">>
      [] n = "cream cheese" -> <<"c","r","e","a","m"," ","c","h","e","e","s","e">>
      [] n = "cucumber" -> <<"c","u","c","u","m","b","e","r">>
      [] n = "cumin" -> <<"c","u","m","i","n">>
      [] n = "curry paste" -> <<"c","u","r","r","y"," ","p","a","s","t","e">>
      [] n = "curry powder" -> <<"c","u","r","r","y"," ","p","o","w","d","e","r">>
      [] n = "egg" -> <<"e","g","g">>
      [] n = "eggs" -> <<"e","g","g","s">>
      [] n = "feta" -> <<"f","e","t","a">>
      [] n = "fish sauce" -> <<"f","i","s","h"," ","s","a","u","c","e">>
      [] n = "garam masala" -> <<"g","a","r","a","m"," ","m","a","s","a","l","a">>
      [] n = "garlic" -> <<"g","a","r","l","i","c">>
      [] n = "ghee" -> <<"g","h","e","e">>
      [] n = "ginger" -> <<"g","i","n","g","e","r">>
      [] n = "goat cheese" -> <<"g","o","a","t"," ","c","h","e","e","s","e">>
      [] n = "gochujang" -> <<"g","o","c","h","u","j","a","n","g">>
      [] n = "gouda" -> <<"g","o","u","d","a">>
      [] n = "grana padano" -> <<"g","r","a","n","a"," ","p","a","d","a","n","o">>
      [] n = "ham" -> <<"h","a","m">>
      [] n = "honey" -> <<"h","o","n","e","y">>
      [] n = "jasmine rice" -> <<"j","a","s","m","i","n","e"," ","r","i","c","e">>
      [] n = "lemon" -> <<"l","e","m","o","n">>
      [] n = "lentils" -> <<"l","e","n","t","i","l","s">>
      [] n = "lime" -> <<"l","i","m","e">>
      [] n = "milk" -> <<"m","i","l","k">>
      [] n = "mint" -> <<"m","i","n","t">>
      [] n = "miso" -> <<"m","i","s","o">>
      [] n = "mozzarella" -> <<"m","o","z","z","a","r","e","l","l","a">>
      [] n = "mushroom" -> <<"m","u","s","h","r","o","o","m">>
      [] n = "mustard" -> <<"m","u","s","t","a","r","d">>
      [] n = "noodles" -> <<"n","o","o","d","l","e","s">>
      [] n = "nori" -> <<"n","o","r","i">>
      [] n = "olive" -> <<"o","l","i","v","e">>
      [] n = "olive oil" -> <<"o","l","i","v","e"," ","o","i","l">>
      [] n = "onion" -> <<"o","n","i","o","n">>
      [] n = "oyster sauce" -> <<"o","y","s","t","e","r"," ","s","a","u","c","e">>
      [] n = "paneer" -> <<"p","a","n","e","e","r">>
      [] n = "paprika" -> <<"p","a","p","r","i","k","a">>
      [] n = "parmesan" -> <<"p","a","r","m","e","s","a","n">>
      [] n = "parsley" -> <<"p","a","r","s","l","e","y">>
      [] n = "pasta" -> <<"p","a","s","t","a">>
      [] n = "peanut" -> <<"p","e","a","n","u","t">>
      [] n = "peanuts" -> <<"p","e","a","n","u","t","s">>
      [] n = "pecorino" -> <<"p","e","c","o","r","i","n","o">>
      [] n = "penne" -> <<"p","e","n","n","e">>
      [] n = "pepper" -> <<"p","e","p","p","e","r">>
      [] n = "pickles" -> <<"p","i","c","k","l","e","s">>
      [] n = "pork" -> <<"p","o","r","k">>
      [] n = "potato" -> <<"p","o","t","a","t","o">>
      [] n = "provolone" -> <<"p","r","o","v","o","l","o","n","e">>
      [] n = "quinoa" -> <<"q","u","i","n","o","a">>
      [] n = "ramen" -> <<"r","a","m","e","n">>
      [] n = "ramen noodles" -> <<"r","a","m","e","n"," ","n","o","o","d","l","e","s">>
      [] n = "rice" -> <<"r","i","c","e">>
      [] n = "ricotta" -> <<"r","i","c","o","t","t","a">>
      [] n = "salmon" -> <<"s","a","l","m","o","n">>
      [] n = "salt" -> <<"s","a","l","t">>
      [] n = "sausage" -> <<"s","a","u","s","a","g","e">>
      [] n = "sesame" -> <<"s","e","s","a","m","e">>
      [] n = "sesame oil" -> <<"s","e","s","a","m","e"," ","o","i","l">>
      [] n = "shrimp" -> <<"s","h","r","i","m","p">>
      [] n = "soba" -> <<"s","o","b","a">>
      [] n = "soy sauce" -> <<"s","o","y"," ","s","a","u","c","e">>
      [] n = "spaghetti" -> <<"s","p","a","g","h","e","t","t","i">>
      [] n = "spinach" -> <<"s","p","i","n","a","c","h">>
      [] n = "sriracha" -> <<"s","r","i","r","a","c","h","a">>
      [] n = "sugar" -> <<"s","u","g","a","r">>
      [] n = "tahini" -> <<"t","a","h","i","n","i">>
      [] n = "tempeh" -> <<"t","e","m","p","e","h">>
      [] n = "tofu" -> <<"t","o","f","u">>
      [] n = "tomato" -> <<"t","o","m","a","t","o">>
      [] n = "tomato paste" -> <<"t","o","m","a","t","o"," ","p","a","s","t","e">>
      [] n = "tomato sauce" -> <<"t","o","m","a","t","o"," ","s","a","u","c","e">>
      [] n = "tortilla" -> <<"t","o","r","t","i","l","l","a">>
      [] n = "tuna" -> <<"t","u","n","a">>
      [] n = "turmeric" -> <<"t","u","r","m","e","r","i","c">>
      [] n = "udon" -> <<"u","d","o","n">>
      [] n = "vinegar" -> <<"v","i","n","e","g","a","r">>
      [] n = "walnut" -> <<"w","a","l","n","u","t">>
      [] n = "yogurt" -> <<"y","o","g","u","r","t">>]

Chars(n) == Spelling[n]

(***************************************************************************)
(* Text: Python's str methods used by normalize_text.                      *)
(***************************************************************************)
\* The characters str.isspace() and the regex class \s hold for, among those drawn.
Whitespace == {" ", "\t", "\n"}

\* str.lower() on one character: an upper-case letter maps to its lower-case letter.
LowerOf ==
    "A" :> "a" @@ "B" :> "b" @@ "C" :> "c" @@ "D" :> "d" @@ "E" :> "e" @@ "F" :> "f" @@ "G" :> "g"
    @@ "H" :> "h" @@ "I" :> "i" @@ "J" :> "j" @@ "K" :> "k" @@ "L" :> "l" @@ "M" :> "m"
    @@ "N" :> "n" @@ "O" :> "o" @@ "P" :> "p" @@ "Q" :> "q" @@ "R" :> "r" @@ "S" :> "s"
    @@ "T" :> "t" @@ "U" :> "u" @@ "V" :> "v" @@ "W" :> "w" @@ "X" :> "x" @@ "Y" :> "y"
    @@ "Z" :> "z"

UpperCase == DOMAIN LowerOf

\* s.lower()
lower(s) ==
    IF s = <<>> THEN <<>>
    ELSE [i \in 1..Len(s) |-> IF s[i] \in UpperCase THEN LowerOf[s[i]] ELSE s[i]]

Range(f) == {f[k] : k \in DOMAIN f}

SetMin(S) == CHOOSE x \in S : \A y \in S : x <= y
SetMax(S) == CHOOSE x \in S : \A y \in S : y <= x

\* s.strip(): leading and trailing whitespace removed.
strip(s) ==
    LET solid == {i \in 1..Len(s) : s[i] \notin Whitespace}
    IN  IF solid = {} THEN <<>> ELSE SubSeq(s, SetMin(solid), SetMax(solid))

\* re.sub(r"\s+", " ", s): every maximal run of whitespace becomes one space.
\* inRun says that the character before s was whitespace of the run being replaced.
RECURSIVE re_sub(_, _)
re_sub(s, inRun) ==
    IF s = <<>> THEN <<>>
    ELSE IF Head(s) \in Whitespace
         THEN (IF inRun THEN <<>> ELSE <<" ">>) \o re_sub(Tail(s), TRUE)
         ELSE <<Head(s)>> \o re_sub(Tail(s), FALSE)

\* A broken normalize_text: the strip() call left out.
normalize_text_nostrip(s) == re_sub(lower(s), FALSE)

\* part_000: s = s.strip().lower(); s = re.sub(r"\s+", " ", s)
normalize_text(s) == re_sub(lower(strip(s)), FALSE)

\* supaniga2: re.sub(r"\s+", " ", (s or "").strip().lower())
normalize_text2(s) == re_sub(lower(strip(IF s = <<>> THEN <<>> ELSE s)), FALSE)

\* supaniga3: re.sub(r"\s+", " ", (s or "").strip().lower())
normalize_text3(s) == re_sub(lower(strip(IF s = <<>> THEN <<>> ELSE s)), FALSE)

Prototypes == {"builder", "finder", "dishcovery"}

NormalizeBy(p, s) ==
    CASE p = "builder" -> normalize_text(s)
      [] p = "finder" -> normalize_text2(s)
      [] p = "dishcovery" -> normalize_text3(s)

(***************************************************************************)
(* The texts the calls are given.                                          *)
(***************************************************************************)
MaxText == 4

TextAlphabet == {"e", "g", "E", " ", "\t"}

SeqsUpTo(S, n) == UNION {[1..k -> S] : k \in 0..n}

\* Every text of at most MaxText characters over TextAlphabet; "egg" is in all catalogs.
ShortTexts == SeqsUpTo(TextAlphabet, MaxText)

UpperOf(c) == IF \E u \in UpperCase : LowerOf[u] = c
              THEN CHOOSE u \in UpperCase : LowerOf[u] = c ELSE c

\* s with every space replaced by the whitespace run gap.
RECURSIVE Widen(_, _)
Widen(s, gap) ==
    IF s = <<>> THEN <<>>
    ELSE (IF Head(s) = " " THEN gap ELSE <<Head(s)>>) \o Widen(Tail(s), gap)

Cased(s, mode) ==
    IF s = <<>> THEN <<>>
    ELSE [i \in 1..Len(s) |->
            IF mode = "upper" \/ (mode = "title" /\ i = 1) THEN UpperOf(s[i]) ELSE s[i]]

\* Catalog names and near misses, typed with padding, wide gaps and capitals.
BaseTexts ==
    {Chars("olive oil"), Chars("egg"), Chars("tomato"), Chars("soy sauce"),
     <<"t","o","m","a","t","o","e">>, <<"x","y","z","z","y","z","z","z">>,
     <<"o","l","i","v","e","o","i","l">>}

Pads == {<<>>, <<" ">>, <<"\t", " ">>}
Gaps == {<<" ">>, <<" ", " ">>, <<"\t">>, <<" ", "\n">>}
CaseModes == {"lower", "upper", "title"}

TypedTexts ==
    {pre \o Cased(Widen(b, gap), mode) \o post :
        b \in BaseTexts, pre \in Pads, post \in Pads, gap \in Gaps, mode \in CaseModes}

Texts == ShortTexts \cup TypedTexts


(***************************************************************************)
(* The matcher: validate_ingredient (part_000, supaniga2) and              *)
(* ingredient_valid (supaniga3).                                           *)
(***************************************************************************)
\* Python's None where a text is expected: no text has a four-letter element.
None == <<"None">>

\* A set of names as the set of str values `q in valid_set` compares q with.
Spelled(S) == {Chars(n) : n \in S}

Catalog(p) ==
    CASE p = "builder" -> VALID_INGREDIENTS
      [] p = "finder" -> VALID_INGREDIENTS2
      [] p = "dishcovery" -> VALID_INGREDIENTS3

\* fuzz.WRatio is rapidfuzz's: any score in 0..100 may come back for a pair of texts.
\* A call sees one table of scores: sim.hi for the names of sim.top, 0 for the others.
ScoreLevels == {0, 74, 75, 89, 90, 100}
ScoreTops == {{"tomato"}, {"egg"}, {"tomato", "olive oil"}, {"peanut"}}
NoSim == [top |-> {}, hi |-> -1]
Sims == {[top |-> t, hi |-> h] : t \in ScoreTops, h \in ScoreLevels}

WRatio(s, c) == IF c \in s.top THEN s.hi ELSE 0

NoMatch == [found |-> FALSE, match |-> "", score |-> 0]

\* process.extractOne(q, choices, scorer=fuzz.WRatio): a choice of maximal score with
\* its score (which one of several maximal choices depends on the set's iteration
\* order), None when there is no choice.
extractOne(choices, s) ==
    IF choices = {} THEN {NoMatch}
    ELSE LET best == SetMax({WRatio(s, c) : c \in choices})
         IN  {[found |-> TRUE, match |-> c, score |-> best] :
                 c \in {b \in choices : WRatio(s, b) = best}}

Returned(valid, canonical, suggestion, s) ==
    [ret |-> <<valid, canonical, suggestion>>, raised |-> FALSE, sim |-> s]

\* Unpacking None into (match, score, _) raises TypeError.
Raised(s) == [ret |-> <<>>, raised |-> TRUE, sim |-> s]

\* A broken validate_ingredient: the exact-match test left out.
validate_ingredient_noexact(nm, valid_set) ==
    LET qn == normalize_text(nm)
    IN  IF qn = <<>> THEN {Returned(FALSE, <<>>, None, NoSim)}
        ELSE UNION {{IF ~e.found THEN Raised(s)
              ELSE IF e.score >= 90 THEN Returned(TRUE, Chars(e.match), None, s)
              ELSE IF e.score >= 75 THEN Returned(FALSE, <<>>, Chars(e.match), s)
              ELSE Returned(FALSE, <<>>, None, s) :
                 e \in extractOne(valid_set, s)} : s \in Sims}

\* A broken validate_ingredient: the empty-query test left out.
validate_ingredient_noempty(nm, valid_set) ==
    LET qn == normalize_text(nm)
    IN  IF qn \in Spelled(valid_set) THEN {Returned(TRUE, qn, None, NoSim)}
        ELSE UNION {{IF ~e.found THEN Raised(s)
              ELSE IF e.score >= 90 THEN Returned(TRUE, Chars(e.match), None, s)
              ELSE IF e.score >= 75 THEN Returned(FALSE, <<>>, Chars(e.match), s)
              ELSE Returned(FALSE, <<>>, None, s) :
                 e \in extractOne(valid_set, s)} : s \in Sims}

\* part_000 validate_ingredient(name, valid_set): every value a call may return.
validate_ingredient(nm, valid_set) ==
    LET qn == normalize_text(nm)
    IN  IF qn = <<>> THEN {Returned(FALSE, <<>>, None, NoSim)}
        ELSE IF qn \in Spelled(valid_set) THEN {Returned(TRUE, qn, None, NoSim)}
        ELSE UNION {{IF ~e.found THEN Raised(s)
              ELSE IF e.score >= 90 THEN Returned(TRUE, Chars(e.match), None, s)
              ELSE IF e.score >= 75 THEN Returned(FALSE, <<>>, Chars(e.match), s)
              ELSE Returned(FALSE, <<>>, None, s) :
                 e \in extractOne(valid_set, s)} : s \in Sims}

\* A broken supaniga2 validate_ingredient: accepts only above 90.
validate_ingredient2_above(nm) ==
    LET qn == normalize_text2(nm)
    IN  IF qn = <<>> THEN {Returned(FALSE, <<>>, None, NoSim)}
        ELSE IF qn \in Spelled(VALID_INGREDIENTS2) THEN {Returned(TRUE, qn, None, NoSim)}
        ELSE UNION {{IF e.found /\ e.score > 90 THEN Returned(TRUE, Chars(e.match), None, s)
              ELSE IF e.found /\ e.score >= 75 THEN Returned(FALSE, <<>>, Chars(e.match), s)
              ELSE Returned(FALSE, <<>>, None, s) :
                 e \in extractOne(VALID_INGREDIENTS2, s)} : s \in Sims}

\* supaniga2 validate_ingredient(name): `if match and match[1] >= 90` tolerates None.
validate_ingredient2(nm) ==
    LET qn == normalize_text2(nm)
    IN  IF qn = <<>> THEN {Returned(FALSE, <<>>, None, NoSim)}
        ELSE IF qn \in Spelled(VALID_INGREDIENTS2) THEN {Returned(TRUE, qn, None, NoSim)}
        ELSE UNION {{IF e.found /\ e.score >= 90 THEN Returned(TRUE, Chars(e.match), None, s)
              ELSE IF e.found /\ e.score >= 75 THEN Returned(FALSE, <<>>, Chars(e.match), s)
              ELSE Returned(FALSE, <<>>, None, s) :
                 e \in extractOne(VALID_INGREDIENTS2, s)} : s \in Sims}

\* A broken ingredient_valid: the suggestion branch also fills canonical.
ingredient_valid_both(nm) ==
    LET qn == normalize_text3(nm)
    IN  IF qn = <<>> THEN {Returned(FALSE, <<>>, None, NoSim)}
        ELSE IF qn \in Spelled(VALID_INGREDIENTS3) THEN {Returned(TRUE, qn, None, NoSim)}
        ELSE UNION {{IF ~e.found THEN Raised(s)
              ELSE IF e.score >= 90 THEN Returned(TRUE, Chars(e.match), None, s)
              ELSE IF e.score >= 75 THEN Returned(FALSE, Chars(e.match), Chars(e.match), s)
              ELSE Returned(FALSE, <<>>, None, s) :
                 e \in extractOne(VALID_INGREDIENTS3, s)} : s \in Sims}

\* supaniga3 ingredient_valid(name)
ingredient_valid(nm) ==
    LET qn == normalize_text3(nm)
    IN  IF qn = <<>> THEN {Returned(FALSE, <<>>, None, NoSim)}
        ELSE IF qn \in Spelled(VALID_INGREDIENTS3) THEN {Returned(TRUE, qn, None, NoSim)}
        ELSE UNION {{IF ~e.found THEN Raised(s)
              ELSE IF e.score >= 90 THEN Returned(TRUE, Chars(e.match), None, s)
              ELSE IF e.score >= 75 THEN Returned(FALSE, <<>>, Chars(e.match), s)
              ELSE Returned(FALSE, <<>>, None, s) :
                 e \in extractOne(VALID_INGREDIENTS3, s)} : s \in Sims}

resolverVars == <<result, outcome, sim>>

ResolverIdle ==
    /\ result = <<>>
    /\ outcome = "none"
    /\ sim = NoSim

(***************************************************************************)
(* The restriction engine of part_000: apply_restrictions.                 *)
(***************************************************************************)
SUBSTITUTIONS ==
    "butter" :> ("vegan" :> "olive oil" @@ "dairy_free" :> "olive oil")
    @@ "milk" :> ("vegan" :> "oat milk" @@ "dairy_free" :> "oat milk")
    @@ "cream" :> ("vegan" :> "coconut cream" @@ "dairy_free" :> "coconut cream")
    @@ "yogurt" :> ("vegan" :> "soy yogurt" @@ "dairy_free" :> "soy yogurt")
    @@ "parmesan" :> ("vegan" :> "nutritional yeast" @@ "dairy_free" :> "nutritional yeast")
    @@ "cheddar" :> ("vegan" :> "vegan cheddar" @@ "dairy_free" :> "vegan cheddar")
    @@ "mozzarella" :> ("vegan" :> "vegan mozzarella" @@ "dairy_free" :> "vegan mozzarella")
    @@ "fish sauce" :> ("vegan" :> "soy sauce + kombu" @@ "vegetarian" :> "soy sauce + kombu")
    @@ "oyster sauce" :> ("vegan" :> "mushroom sauce" @@ "vegetarian" :> "mushroom sauce")
    @@ "chicken" :> ("vegan" :> "tofu" @@ "vegetarian" :> "paneer")
    @@ "beef" :> ("vegan" :> "tempeh" @@ "vegetarian" :> "mushroom")
    @@ "pork" :> ("vegan" :> "tofu" @@ "vegetarian" :> "mushroom")
    @@ "shrimp" :> ("vegan" :> "tofu" @@ "vegetarian" :> "mushroom")

RESTRICTION_RULES ==
    "vegan" :> [forbid |->
        {"beef", "butter", "cheddar", "chicken", "cream", "egg", "fish sauce", "milk",
         "mozzarella", "oyster sauce", "parmesan", "pork", "shrimp", "yogurt"}]
    @@ "vegetarian" :> [forbid |->
        {"beef", "chicken", "fish sauce", "oyster sauce", "pork", "shrimp"}]
    @@ "dairy_free" :> [forbid |->
        {"butter", "cheddar", "cream", "milk", "mozzarella", "parmesan", "yogurt"}]
    @@ "nut_free" :> [forbid |->
        {"almond", "cashew", "peanut", "peanuts", "walnut"}]
    @@ "gluten_free" :> [forbid |->
        {"bread", "pasta", "spaghetti", "tortilla"}]

\* Python's None where an ingredient name is expected.
NoName == "<None>"

\* `if x`: None and the empty str are false.
Truthy(x) == x # NoName /\ x # ""

\* A broken union: `forbids =` for `forbids |=`, only the last restriction counts.
forbidden_last(rs) ==
    IF rs = <<>> THEN {}
    ELSE IF rs[Len(rs)] \in DOMAIN RESTRICTION_RULES
         THEN RESTRICTION_RULES[rs[Len(rs)]].forbid ELSE {}

\* forbids |= RESTRICTION_RULES.get(r, {}).get("forbid", set()) for r in restrictions
forbidden(rs) ==
    UNION {IF rs[k] \in DOMAIN RESTRICTION_RULES THEN RESTRICTION_RULES[rs[k]].forbid ELSE {} :
              k \in 1..Len(rs)}

\* SUBSTITUTIONS.get(ing, {}).get(r)
sub_get(ing, r) ==
    IF ing \in DOMAIN SUBSTITUTIONS /\ r \in DOMAIN SUBSTITUTIONS[ing]
    THEN SUBSTITUTIONS[ing][r] ELSE NoName

\* A broken scan: no break, the last restriction's lookup is the one kept.
first_sub_nobreak(ing, rs) ==
    IF rs = <<>> THEN NoName ELSE sub_get(ing, rs[Len(rs)])

\* sub = None; for r in restrictions: sub = ...get(r); if sub: break
RECURSIVE first_sub(_, _)
first_sub(ing, rs) ==
    IF rs = <<>> THEN NoName
    ELSE LET sub == sub_get(ing, Head(rs))
         IN  IF Truthy(sub) \/ Len(rs) = 1 THEN sub ELSE first_sub(ing, Tail(rs))

Replaced(ing, rs, sub) == [kind |-> "Replaced", ing |-> ing, restrictions |-> rs, sub |-> sub]
Removed(ing, rs) == [kind |-> "Removed", ing |-> ing, restrictions |-> rs, sub |-> NoName]

\* A broken loop body: a removal is not noted.
visit_unnoted(out, log, i, rs, forbids) ==
    LET ing == out[i]
        sub == first_sub(ing, rs)
    IN  IF ing \notin forbids THEN [out |-> out, notes |-> log]
        ELSE IF Truthy(sub)
             THEN [out |-> [out EXCEPT ![i] = sub], notes |-> Append(log, Replaced(ing, rs, sub))]
             ELSE [out |-> [out EXCEPT ![i] = NoName], notes |-> log]

\* The body of `for i, ing in enumerate(out)` for one i.
visit(out, log, i, rs, forbids) ==
    LET ing == out[i]
        sub == first_sub(ing, rs)
    IN  IF ing \notin forbids THEN [out |-> out, notes |-> log]
        ELSE IF Truthy(sub)
             THEN [out |-> [out EXCEPT ![i] = sub], notes |-> Append(log, Replaced(ing, rs, sub))]
             ELSE [out |-> [out EXCEPT ![i] = NoName], notes |-> Append(log, Removed(ing, rs))]

\* The loop from index i on.
RECURSIVE substitute(_, _, _, _, _)
substitute(out, log, i, rs, forbids) ==
    IF i > Len(out) THEN [out |-> out, notes |-> log]
    ELSE LET v == visit(out, log, i, rs, forbids)
         IN  substitute(v.out, v.notes, i + 1, rs, forbids)

\* A broken apply_restrictions: `out = ings` for `out = ings[:]`, the loop writes into
\* the caller's list.
apply_restrictions_alias(ings, rs) ==
    LET done == substitute(ings, <<>>, 1, rs, forbidden(rs))
    IN  [ings |-> done.out, out |-> SelectSeq(done.out, Truthy), notes |-> done.notes]

\* apply_restrictions(ings, restrictions): the returned (out, notes), and the caller's
\* list ings after the call.
apply_restrictions(ings, rs) ==
    LET out == ings
        done == substitute(out, <<>>, 1, rs, forbidden(rs))
    IN  [ings |-> ings, out |-> SelectSeq(done.out, Truthy), notes |-> done.notes]

restrictVars == <<validated_ingredients, given, restrictions, adj_ings, notes, again>>

RestrictIdle ==
    /\ validated_ingredients = <<>>
    /\ given = <<>>
    /\ restrictions = <<>>
    /\ adj_ings = <<>>
    /\ notes = <<>>
    /\ again = <<>>

(***************************************************************************)
(* The sufficiency evaluator and suggestion generator of supaniga3.        *)
(***************************************************************************)
CATS ==
    "aromatic" :>
        {"garlic", "ginger", "onion"}
    @@ "protein" :>
        {"beans", "beef", "chicken", "chickpeas", "egg", "eggs", "lentils", "mushroom",
         "paneer", "pork", "salmon", "shrimp", "tempeh", "tofu", "tuna"}
    @@ "carb" :>
        {"bread", "couscous", "noodles", "pasta", "penne", "potato", "quinoa", "ramen", "rice",
         "spaghetti", "tortilla", "udon"}
    @@ "liquid" :>
        {"coconut milk", "cream", "milk", "olive oil", "sesame oil", "tomato sauce", "yogurt"}
    @@ "flavor" :>
        {"balsamic vinegar", "cheddar", "cheese", "fish sauce", "honey", "mozzarella",
         "mustard", "oyster sauce", "parmesan", "pepper", "salt", "soy sauce", "tomato paste",
         "vinegar"}
    @@ "veg" :>
        {"bell pepper", "broccoli", "carrot", "cucumber", "spinach", "tomato"}

BAD_COMBOS ==
    <<{"milk", "pasta"}, {"milk", "rice"}, {"milk", "tuna"}>>

SUGGESTIONS ==
    "milk+pasta" :> <<"olive oil", "garlic", "parmesan", "black pepper">>
    @@ "needs_aromatic" :> <<"garlic", "onion">>
    @@ "needs_fat" :> <<"olive oil", "butter", "sesame oil">>
    @@ "needs_flavor" :> <<"salt", "pepper", "soy sauce", "tomato paste", "parmesan">>
    @@ "needs_protein" :> <<"chicken", "tofu", "eggs", "shrimp", "mushroom">>
    @@ "needs_carb" :> <<"rice", "pasta", "bread", "noodles">>
    @@ "needs_liquid" :> <<"olive oil", "coconut milk", "tomato sauce", "cream">>

\* A broken classifier: a category counts only when all its items are there.
classify_categories_subset(ings) ==
    {cat \in DOMAIN CATS : CATS[cat] \subseteq Range(ings)}

\* classify_categories(ings): the categories with an item among the ingredients.
classify_categories(ings) ==
    {cat \in DOMAIN CATS : Range(ings) \cap CATS[cat] # {}}

\* has_bad_combo(ings): <<bad>> for the first bad combo contained in the ingredients
\* (the code returns list(bad)), <<>> for None.
has_bad_combo(ings) ==
    LET hits == {k \in 1..Len(BAD_COMBOS) : BAD_COMBOS[k] \subseteq Range(ings)}
    IN  IF hits = {} THEN <<>> ELSE <<BAD_COMBOS[SetMin(hits)]>>

\* A broken reasons list: the flavor test placed before the protein/carb test.
missing_reasons_swapped(ings) ==
    LET cats == classify_categories(ings)
        has(x) == x \in Range(ings)
    IN  (IF ~("aromatic" \in cats \/ "veg" \in cats) THEN <<"needs_aromatic">> ELSE <<>>)
        \o (IF "flavor" \notin cats THEN <<"needs_flavor">> ELSE <<>>)
        \o (IF ~("protein" \in cats \/ "carb" \in cats) THEN <<"needs_protein">> ELSE <<>>)
        \o (IF /\ ~("liquid" \in cats \/ "fat" \in cats \/ has("olive oil"))
               /\ "liquid" \notin cats /\ ~has("olive oil") /\ ~has("butter")
               /\ ~has("sesame oil")
            THEN <<"needs_fat">> ELSE <<>>)

\* need_more_for_cook lines 168-176: the reasons list.
missing_reasons(ings) ==
    LET cats == classify_categories(ings)
        has(x) == x \in Range(ings)
    IN  (IF ~("aromatic" \in cats \/ "veg" \in cats) THEN <<"needs_aromatic">> ELSE <<>>)
        \o (IF ~("protein" \in cats \/ "carb" \in cats) THEN <<"needs_protein">> ELSE <<>>)
        \o (IF "flavor" \notin cats THEN <<"needs_flavor">> ELSE <<>>)
        \o (IF /\ ~("liquid" \in cats \/ "fat" \in cats \/ has("olive oil"))
               /\ "liquid" \notin cats /\ ~has("olive oil") /\ ~has("butter")
               /\ ~has("sesame oil")
            THEN <<"needs_fat">> ELSE <<>>)

\* SUGGESTIONS.get(key, [])
suggestions_get(key) == IF key \in DOMAIN SUGGESTIONS THEN SUGGESTIONS[key] ELSE <<>>

\* suggestions += SUGGESTIONS.get(r, []) for r in reasons
RECURSIVE remedies(_)
remedies(rs) ==
    IF rs = <<>> THEN <<>> ELSE suggestions_get(Head(rs)) \o remedies(Tail(rs))

\* A broken filter: nothing is dropped.
dedupe_keep(xs, seen) == xs

\* [x for x in suggestions if not (x in seen or seen.add(x))]
RECURSIVE dedupe(_, _)
dedupe(xs, seen) ==
    IF xs = <<>> THEN <<>>
    ELSE IF Head(xs) \in seen THEN dedupe(Tail(xs), seen)
         ELSE <<Head(xs)>> \o dedupe(Tail(xs), seen \cup {Head(xs)})

\* need_more_for_cook(ings): (enough, reasons, suggestions)
need_more_for_cook(ings) ==
    LET rs == missing_reasons(ings)
        bad == has_bad_combo(ings)
        all == (IF bad # <<>> THEN suggestions_get("milk+pasta") ELSE <<>>) \o remedies(rs)
    IN  [enough |-> Len(rs) = 0, reasons |-> rs, suggestions |-> dedupe(all, {})]

cookVars == <<validated, enough, reasons, suggestions>>

CookIdle ==
    /\ validated = <<>>
    /\ enough = FALSE
    /\ reasons = <<>>
    /\ suggestions = <<>>

(***************************************************************************)
(* supaniga2: the categories a search needs and the sufficiency report.    *)
(***************************************************************************)
CATEGORIES ==
    "protein" :> {"chicken", "beef", "pork", "egg", "tofu", "tempeh", "shrimp", "salmon",
                  "tuna", "chickpeas", "lentils", "beans", "paneer", "ham", "bacon",
                  "sausage"}
    @@ "carb" :> {"rice", "jasmine rice", "basmati rice", "noodles", "pasta", "spaghetti",
                  "tortilla", "bread", "quinoa", "couscous", "udon", "soba",
                  "ramen noodles", "potato"}
    @@ "flavor" :> {"soy sauce", "fish sauce", "oyster sauce", "tomato paste",
                    "curry paste", "curry powder", "turmeric", "cumin", "coriander",
                    "paprika", "chili powder", "garam masala", "vinegar",
                    "balsamic vinegar", "miso", "gochujang", "sriracha", "tahini"}
    @@ "veg" :> {"tomato", "onion", "garlic", "ginger", "carrot", "spinach", "broccoli",
                 "bell pepper", "mushroom", "olive", "capers", "pickles", "nori"}

\* The keys of CATEGORIES in the order the dict lists them.
CategoryOrder == <<"protein", "carb", "flavor", "veg">>

MIN_REQUIRED == "protein" :> 1 @@ "carb" :> 1 @@ "flavor" :> 1 @@ "veg" :> 1

\* categorize(ing): the categories listing the ingredient, in dict order.
categorize(ing) == SelectSeq(CategoryOrder, LAMBDA k : ing \in CATEGORIES[k])

\* A broken report: the distance from the minimum instead of the shortfall.
sufficiency_report_abs(ings) ==
    LET hv == [k \in DOMAIN CATEGORIES |->
                  Cardinality({i \in 1..Len(ings) : k \in Range(categorize(ings[i]))})]
        ms == [k \in DOMAIN MIN_REQUIRED |->
                  IF MIN_REQUIRED[k] >= hv[k] THEN MIN_REQUIRED[k] - hv[k]
                  ELSE hv[k] - MIN_REQUIRED[k]]
    IN  [ok |-> \A k \in DOMAIN ms : ms[k] = 0, have |-> hv, missing |-> ms]

\* sufficiency_report(ings): (ok, have, missing)
sufficiency_report(ings) ==
    LET hv == [k \in DOMAIN CATEGORIES |->
                  Cardinality({i \in 1..Len(ings) : k \in Range(categorize(ings[i]))})]
        ms == [k \in DOMAIN MIN_REQUIRED |->
                  IF MIN_REQUIRED[k] - hv[k] > 0 THEN MIN_REQUIRED[k] - hv[k] ELSE 0]
    IN  [ok |-> \A k \in DOMAIN ms : ms[k] = 0, have |-> hv, missing |-> ms]

reportVars == <<validated_ings, have, missing, before>>

ReportIdle ==
    /\ validated_ings = <<>>
    /\ have = <<>>
    /\ missing = <<>>
    /\ before = <<>>

(***************************************************************************)
(* part_000: cuisine inference and the recipe column.                      *)
(***************************************************************************)
CUISINE_HINTS ==
    "Italian" :>
        ("tomato" :> 1 @@ "basil" :> 1 @@ "olive oil" :> 1 @@ "parmesan" :> 2
         @@ "mozzarella" :> 2 @@ "pasta" :> 2 @@ "spaghetti" :> 2
         @@ "balsamic vinegar" :> 1)
    @@ "Thai" :>
        ("fish sauce" :> 2 @@ "lime" :> 1 @@ "chili" :> 1 @@ "garlic" :> 1
         @@ "coconut milk" :> 2 @@ "basil" :> 1 @@ "jasmine rice" :> 2)
    @@ "Indian" :>
        ("garam masala" :> 2 @@ "turmeric" :> 1 @@ "cumin" :> 1 @@ "coriander" :> 1
         @@ "ghee" :> 1 @@ "basmati rice" :> 2 @@ "paneer" :> 2)
    @@ "Japanese" :>
        ("soy sauce" :> 1 @@ "miso" :> 2 @@ "nori" :> 2 @@ "sesame oil" :> 1
         @@ "ginger" :> 1 @@ "rice" :> 1)
    @@ "Mexican" :>
        ("tortilla" :> 2 @@ "chili powder" :> 1 @@ "cumin" :> 1 @@ "lime" :> 1
         @@ "beans" :> 1 @@ "corn" :> 1 @@ "cilantro" :> 1)
    @@ "Chinese" :>
        ("soy sauce" :> 1 @@ "oyster sauce" :> 2 @@ "ginger" :> 1 @@ "garlic" :> 1
         @@ "sesame oil" :> 1 @@ "noodles" :> 2)
    @@ "Middle Eastern" :>
        ("tahini" :> 2 @@ "cumin" :> 1 @@ "coriander" :> 1 @@ "yogurt" :> 1
         @@ "olive oil" :> 1)

\* The keys of CUISINE_HINTS in the order the dict lists them.
CuisineOrder ==
    <<"Italian", "Thai", "Indian", "Japanese", "Mexican", "Chinese", "Middle Eastern">>

\* CUISINE_COUNTRY: cuisine -> (iso2, country name); None is None for the code and
\* NoName for the name.
CUISINE_COUNTRY ==
    "Italian" :> << <<"I", "T">>, "Italy" >>
    @@ "Thai" :> << <<"T", "H">>, "Thailand" >>
    @@ "Indian" :> << <<"I", "N">>, "India" >>
    @@ "Japanese" :> << <<"J", "P">>, "Japan" >>
    @@ "Mexican" :> << <<"M", "X">>, "Mexico" >>
    @@ "Chinese" :> << <<"C", "N">>, "China" >>
    @@ "Middle Eastern" :> <<None, NoName>>

\* chr(base + ord(c)) for an upper-case letter c: its regional indicator symbol.
RegionalIndicator ==
    "A" :> "(A)" @@ "B" :> "(B)" @@ "C" :> "(C)" @@ "D" :> "(D)" @@ "E" :> "(E)" @@ "F"
    :> "(F)" @@ "G" :> "(G)" @@ "H" :> "(H)" @@ "I" :> "(I)" @@ "J" :> "(J)" @@ "K" :>
    "(K)" @@ "L" :> "(L)" @@ "M" :> "(M)" @@ "N" :> "(N)" @@ "O" :> "(O)" @@ "P" :>
    "(P)" @@ "Q" :> "(Q)" @@ "R" :> "(R)" @@ "S" :> "(S)" @@ "T" :> "(T)" @@ "U" :>
    "(U)" @@ "V" :> "(V)" @@ "W" :> "(W)" @@ "X" :> "(X)" @@ "Y" :> "(Y)" @@ "Z" :>
    "(Z)"

\* to_flag(iso2): "" for no code or a code not two long, else the two regional
\* indicators of the upper-cased code.
to_flag(iso2) ==
    IF iso2 = None \/ iso2 = <<>> \/ Len(iso2) # 2 THEN <<>>
    ELSE <<RegionalIndicator[UpperOf(iso2[1])], RegionalIndicator[UpperOf(iso2[2])]>>

\* s += w for every (ing, w) of the hints with ing in ing_set.
RECURSIVE hint_sum(_, _, _)
hint_sum(hints, todo, ing_set) ==
    IF todo = {} THEN 0
    ELSE LET ing == CHOOSE x \in todo : TRUE
         IN  (IF ing \in ing_set THEN hints[ing] ELSE 0)
             + hint_sum(hints, todo \ {ing}, ing_set)

\* A broken inference: every list position counts, repeats included.
infer_cuisine_multiset(ingredients) ==
    LET s(c) == hint_sum([i \in 1..Len(ingredients) |->
                             IF ingredients[i] \in DOMAIN CUISINE_HINTS[c]
                             THEN CUISINE_HINTS[c][ingredients[i]] ELSE 0],
                         1..Len(ingredients), 1..Len(ingredients))
        scored == SelectSeq(CuisineOrder, LAMBDA c : s(c) > 0)
        top == SetMax({s(c) : c \in Range(scored)})
    IN  IF scored = <<>> THEN [cuisine |-> NoName, score |-> 0]
        ELSE LET best == Head(SelectSeq(scored, LAMBDA c : s(c) = top))
             IN  [cuisine |-> best, score |-> s(best)]

\* infer_cuisine(ingredients): (best cuisine, score); max(scores, key=scores.get)
\* returns the first cuisine, in dict order, of those with the largest score.
infer_cuisine(ingredients) ==
    LET ing_set == Range(ingredients)
        s(c) == hint_sum(CUISINE_HINTS[c], DOMAIN CUISINE_HINTS[c], ing_set)
        scored == SelectSeq(CuisineOrder, LAMBDA c : s(c) > 0)
        top == SetMax({s(c) : c \in Range(scored)})
    IN  IF scored = <<>> THEN [cuisine |-> NoName, score |-> 0]
        ELSE LET best == Head(SelectSeq(scored, LAMBDA c : s(c) = top))
             IN  [cuisine |-> best, score |-> s(best)]

\* A broken confidence rule: any inferred cuisine is trusted.
confident_rule_any(c, sc) == Truthy(c)

\* confident = bool(cuisine and score >= 3)
confident_rule(c, sc) == Truthy(c) /\ sc >= 3

\* generate_steps(ings, cuisine, diet_mode): the steps, each named by its opening
\* words; the last ones are the cuisine's own, or the general seasoning step.
generate_steps(ings, c, diet) ==
    LET has(x) == x \in Range(ings)
        base ==
            <<IF diet THEN "Prep (use less oil)" ELSE "Prep",
              IF has("sesame oil") THEN "Heat 1 tbsp sesame oil" ELSE "Heat 1 tbsp olive oil",
              "Saute aromatics", "Add main ingredients">>
    IN  base \o
        (IF c = "Italian" /\ (has("tomato") \/ has("tomato paste"))
         THEN <<"Add tomato/tomato paste", "Finish with basil">>
         ELSE IF c = "Thai" /\ (has("fish sauce") \/ has("lime") \/ has("chili"))
         THEN <<"Splash in fish/soy sauce", "Balance salty-sour-sweet">>
         ELSE IF c = "Indian"
                 /\ (has("curry powder") \/ has("garam masala") \/ has("turmeric"))
         THEN <<"Bloom spices in oil", "Simmer 12-15 min">>
         ELSE IF c = "Japanese" /\ (has("soy sauce") \/ has("miso"))
         THEN <<"Season with soy/miso", "Finish with sesame oil">>
         ELSE IF c = "Mexican"
                 /\ (has("tortilla") \/ has("beans") \/ has("chili powder"))
         THEN <<"Season with cumin/chili powder", "Top with lime and cilantro">>
         ELSE IF c = "Chinese" /\ (has("oyster sauce") \/ has("soy sauce"))
         THEN <<"Add soy/oyster sauce", "Thicken with a little cornstarch">>
         ELSE <<"Season to taste">>)

\* The dish title as the parts its f-string joins: the cuisine prefix, the first
\* three ingredients (title-cased when joined) and whether the ellipsis follows.
dish_title(ings, c, conf) ==
    [cuisine |-> IF conf THEN c ELSE "",
     main |-> SubSeq(ings, 1, IF Len(ings) > 3 THEN 3 ELSE Len(ings)),
     ellipsis |-> Len(ings) > 3]

\* A broken header: the flag whenever the inferred cuisine has a country code.
header_line_unconfident(c, conf) ==
    IF c \in DOMAIN CUISINE_COUNTRY /\ CUISINE_COUNTRY[c][1] # None
                /\ CUISINE_COUNTRY[c][1] # <<>>
    THEN LET flag == to_flag(CUISINE_COUNTRY[c][1]) \o <<" ", " ">>
         IN  [header_flag |-> flag,
              origin |-> <<[flag |-> flag, country_name |-> CUISINE_COUNTRY[c][2]]>>]
    ELSE [header_flag |-> <<>>, origin |-> <<>>]

\* Lines 323-328: the header flag and the Origin line, written only for a confident
\* cuisine with a country code.
header_line(c, conf) ==
    IF conf /\ c \in DOMAIN CUISINE_COUNTRY /\ CUISINE_COUNTRY[c][1] # None
            /\ CUISINE_COUNTRY[c][1] # <<>>
    THEN LET flag == to_flag(CUISINE_COUNTRY[c][1]) \o <<" ", " ">>
         IN  [header_flag |-> flag,
              origin |-> <<[flag |-> flag, country_name |-> CUISINE_COUNTRY[c][2]]>>]
    ELSE [header_flag |-> <<>>, origin |-> <<>>]

recipeVars ==
    <<diet_mode, shown, cuisine, score, confident, title, steps, header_flag, origin>>

RecipeIdle ==
    /\ diet_mode = FALSE
    /\ shown = "none"
    /\ cuisine = NoName
    /\ score = 0
    /\ confident = FALSE
    /\ title = <<>>
    /\ steps = <<>>
    /\ header_flag = <<>>
    /\ origin = <<>>

\* Lines 303-328 of part_000 as one function of the validated list and the sidebar:
\* everything the recipe column assigns; what a branch leaves unassigned is as before
\* the run.
recipe_column(vi, rs, diet) ==
    LET nothing == [shown |-> "info", ings |-> vi, adj_ings |-> <<>>, notes |-> <<>>,
                    cuisine |-> NoName, score |-> 0, confident |-> FALSE, title |-> <<>>,
                    steps |-> <<>>, header_flag |-> <<>>, origin |-> <<>>]
    IN  IF Len(vi) < 2 THEN nothing
        ELSE LET r == apply_restrictions(vi, rs)
                 inf == infer_cuisine(r.out)
                 conf == confident_rule(inf.cuisine, inf.score)
                 hd == header_line(inf.cuisine, conf)
             IN  IF r.out = <<>>
                 THEN [nothing EXCEPT !.shown = "error", !.ings = r.ings, !.notes = r.notes]
                 ELSE [shown |-> "recipe", ings |-> r.ings, adj_ings |-> r.out,
                       notes |-> r.notes, cuisine |-> inf.cuisine, score |-> inf.score,
                       confident |-> conf,
                       title |-> dish_title(r.out, inf.cuisine, conf),
                       steps |-> generate_steps(r.out,
                                                IF conf THEN inf.cuisine ELSE NoName, diet),
                       header_flag |-> hd.header_flag, origin |-> hd.origin]

(***************************************************************************)
(* The ingredient slots of a session: one script run draws a text input    *)
(* for every slot, stores its text and validity, may append a slot, and    *)
(* collects the validated list.                                            *)
(***************************************************************************)
\* The resolver of prototype p on a text: the outcomes it can have.
Validate(p, t) ==
    CASE p = "builder" -> validate_ingredient(t, VALID_INGREDIENTS)
      [] p = "finder" -> validate_ingredient2(t)
      [] p = "dishcovery" -> ingredient_valid(t)

\* The catalog name a canonical text spells.
NameOf(p, t) == CHOOSE n \in Catalog(p) : Chars(n) = t

\* The resolver's answer (is_valid, canonical, suggestion) for a slot text: the same
\* on every call of a server process.
resolve(val) == answers[val]

\* A broken append: the new slot starts with the text of the slot before it.
append_slot_copy(st) ==
    [st EXCEPT !.raw = Append(st.raw, st.raw[Len(st.raw)]),
               !.valid = Append(st.valid, FALSE)]

\* ingredients_raw.append(""); ingredients_valid.append(False)
append_slot(st) ==
    [st EXCEPT !.raw = Append(st.raw, <<>>), !.valid = Append(st.valid, FALSE)]

\* A broken input: a slot once valid stays flagged valid.
render_ingredient_input_sticky(st, idx, val) ==
    [st EXCEPT !.raw[idx] = val,
               !.valid[idx] = st.valid[idx] \/ (resolve(val)[1] /\ strip(val) # <<>>)]

\* render_ingredient_input(idx) with the text val in the input: the slot's text and
\* validity are stored.
render_ingredient_input(st, idx, val) ==
    [st EXCEPT !.raw[idx] = val,
               !.valid[idx] = resolve(val)[1] /\ strip(val) # <<>>]

\* A broken loop body: any valid slot asks for a new one, not only the last.
slot_step_any(p, st, i, val) ==
    LET drawn == render_ingredient_input(st, i, val)
    IN  IF /\ drawn.valid[i] /\ strip(drawn.raw[i]) # <<>>
           /\ (p = "finder" \/ drawn.more_possible)
        THEN [append_slot(drawn) EXCEPT !.more_possible = FALSE]
        ELSE drawn

\* One iteration of the drawing loop: the slot is drawn; if it is the last slot as
\* the list is now, valid and not blank, a slot is appended, in part_000 and
\* supaniga3 only while more_possible (not added_this_run).
slot_step(p, st, i, val) ==
    LET drawn == render_ingredient_input(st, i, val)
    IN  IF /\ i = Len(drawn.raw)
           /\ drawn.valid[i] /\ strip(drawn.raw[i]) # <<>>
           /\ (p = "finder" \/ drawn.more_possible)
        THEN [append_slot(drawn) EXCEPT !.more_possible = FALSE]
        ELSE drawn

\* for i in range(n): the iterations from i on, n being the length when the loop began;
\* the state an iteration leaves is computed once and handed to the next.
RECURSIVE slot_loop(_, _, _, _, _)
slot_loop(p, st, i, n, texts) ==
    IF i > n THEN st
    ELSE CHOOSE out \in {slot_loop(p, nxt, i + 1, n, texts) :
                            nxt \in {slot_step(p, st, i, texts[i])}} : TRUE

\* The drawing loop and, in supaniga2, the "Add another ingredient" button.
draw_slots(p, raw, valid, texts, pressed) ==
    LET looped == slot_loop(p, [raw |-> raw, valid |-> valid, more_possible |-> TRUE],
                            1, Len(raw), texts)
    IN  IF p = "finder" /\ pressed THEN append_slot(looped) ELSE looped

\* A broken collection: an ingredient already collected is skipped.
consolidate_unique(p, raw, valid) ==
    LET kept == SelectSeq([i \in 1..Len(raw) |-> i],
                          LAMBDA i : /\ valid[i] /\ strip(raw[i]) # <<>>
                                     /\ \A j \in 1..(i - 1) :
                                           valid[j] => resolve(raw[j])[2] # resolve(raw[i])[2])
    IN  [k \in 1..Len(kept) |-> NameOf(p, resolve(raw[kept[k]])[2])]

\* The validated list: the canonical name of every slot flagged valid and not blank;
\* supaniga2 resolves again and keeps the slot only if that is valid too.
consolidate(p, raw, valid) ==
    LET kept == SelectSeq([i \in 1..Len(raw) |-> i],
                          LAMBDA i : /\ valid[i] /\ strip(raw[i]) # <<>>
                                     /\ (p = "finder" => resolve(raw[i])[1]))
    IN  [k \in 1..Len(kept) |->
            LET can == resolve(raw[kept[k]])[2]
            IN  IF p = "finder" \/ (can # None /\ can # <<>>) THEN NameOf(p, can)
                ELSE NameOf(p, NormalizeBy(p, raw[kept[k]]))]

sessionVars ==
    <<ingredients_raw, ingredients_valid, rendered, answers, slot_made, event, prev>>

searchVars == <<secrets, tips, can_search, searched, proceed, panel>>

SearchIdle ==
    /\ secrets = {}
    /\ tips = <<>>
    /\ can_search = FALSE
    /\ searched = "none"
    /\ proceed = <<>>
    /\ panel = "none"

SessionIdle ==
    /\ ingredients_raw = <<>>
    /\ ingredients_valid = <<>>
    /\ rendered = 0
    /\ answers = <<>>
    /\ slot_made = <<>>
    /\ event = <<>>
    /\ prev = <<>>

(***************************************************************************)
(* What follows the validated list in supaniga2 (lines 301-336) and in     *)
(* supaniga3 (lines 281-305, 347-351).                                     *)
(***************************************************************************)
\* A broken gate: three ingredients are enough, whatever they cover.
can_search_rule_count(ok, n) == n >= 3

\* can_search = enough and len(validated_ings) >= 3
can_search_rule(ok, n) == ok /\ n >= 3

\* supaniga2 lines 301-336: the report, a tip per category with a missing count when
\* the list is not enough (a tip names five items of the category; only the category
\* is kept here), the gate, and the API searched: Spoonacular if it has a key, else
\* Edamam if it has, else none.
search_gate(ings, keys) ==
    LET r == sufficiency_report(ings)
        cs == can_search_rule(r.ok, Len(ings))
    IN  [enough |-> r.ok, have |-> r.have, missing |-> r.missing,
         tips |-> IF ~r.ok THEN SelectSeq(CategoryOrder, LAMBDA k : r.missing[k] > 0)
                  ELSE <<>>,
         can_search |-> cs,
         searched |-> IF ~cs THEN "none"
                      ELSE IF "spoonacular" \in keys THEN "spoonacular"
                      ELSE IF "edamam" \in keys THEN "edamam"
                      ELSE "none"]

\* The value of a name the script run has not assigned.
Unassigned == <<"<unassigned>">>

\* supaniga3 lines 281-305 and 347-351 with the toggle at value toggle: an empty list
\* assigns nothing; a list that is not enough draws the toggle and stops the run
\* unless it is on; otherwise TheMealDB is searched. The Add More panel then reads
\* suggestions, a NameError if the run has not assigned it.
decide(ings, toggle) ==
    IF Len(ings) = 0
    THEN [enough |-> FALSE, reasons |-> Unassigned, suggestions |-> Unassigned,
          proceed |-> <<>>, searched |-> "none", panel |-> "NameError"]
    ELSE LET r == need_more_for_cook(ings)
         IN  [enough |-> r.enough, reasons |-> r.reasons, suggestions |-> r.suggestions,
              proceed |-> IF r.enough THEN <<>> ELSE <<toggle>>,
              searched |-> IF r.enough \/ toggle THEN "themealdb" ELSE "none",
              panel |-> IF ~r.enough /\ ~toggle THEN "stopped"
                        ELSE IF r.suggestions = Unassigned THEN "NameError" ELSE "read"]

(***************************************************************************)
(* The normalizer alone: normalize_text called on a text, then on its own  *)
(* output.                                                                 *)
(***************************************************************************)
NormInit ==
    /\ name \in Texts
    /\ proto = "none"
    /\ q = <<>>
    /\ qq = <<>>
    /\ stage = "input"
    /\ ResolverIdle
    /\ SearchIdle
    /\ SessionIdle
    /\ RecipeIdle
    /\ ReportIdle
    /\ RestrictIdle
    /\ CookIdle

\* normalize_text(name) of prototype p.
Normalize(p) ==
    /\ stage = "input"
    /\ proto' = p
    /\ q' = <<NormalizeBy(p, name)>>
    /\ stage' = "normalized"
    /\ UNCHANGED <<name, qq, resolverVars, restrictVars, cookVars, reportVars, recipeVars, sessionVars, searchVars>>

NormalizeBuilder == Normalize("builder")
NormalizeFinder == Normalize("finder")
NormalizeDishcovery == Normalize("dishcovery")

\* normalize_text(q): the same function on its own output.
Renormalize ==
    /\ stage = "normalized"
    /\ qq' = <<NormalizeBy(proto, q[1])>>
    /\ stage' = "renormalized"
    /\ UNCHANGED <<proto, name, q, resolverVars, restrictVars, cookVars, reportVars, recipeVars, sessionVars, searchVars>>

NormNext == NormalizeBuilder \/ NormalizeFinder \/ NormalizeDishcovery \/ Renormalize

SpecNormalize == NormInit /\ [][NormNext]_vars

\* C5: normalize_text is idempotent, and its output is lower case, has no leading or
\* trailing whitespace and no run of two or more whitespace characters; a text of
\* whitespace only normalizes to the empty text.
C5_NormalizeIdempotentCanonical ==
    /\ stage # "input" =>
          LET o == q[1]
          IN  /\ \A i \in 1..Len(o) : o[i] \notin UpperCase
              /\ o # <<>> => o[1] \notin Whitespace /\ o[Len(o)] \notin Whitespace
              /\ \A i \in 1..(Len(o) - 1) : ~(o[i] \in Whitespace /\ o[i + 1] \in Whitespace)
              /\ (\A i \in 1..Len(name) : name[i] \in Whitespace) => o = <<>>
    /\ stage = "renormalized" => qq = q

\* A padded, capitalised text with a two-character gap was normalized twice.
C5_Witness ==
    /\ stage = "renormalized"
    /\ name = <<"\t", " ">> \o <<"O","L","I","V","E"," ","\n","O","I","L">> \o <<" ">>
    /\ q[1] = Chars("olive oil")

(***************************************************************************)
(* The matcher alone: one query text resolved by one prototype.            *)
(***************************************************************************)
MaxQuery == 3

QueryTexts == SeqsUpTo(TextAlphabet, MaxQuery) \cup TypedTexts

ResolveInit ==
    /\ name \in QueryTexts
    /\ proto = "none"
    /\ q = <<>>
    /\ qq = <<>>
    /\ stage = "input"
    /\ ResolverIdle
    /\ SearchIdle
    /\ SessionIdle
    /\ RecipeIdle
    /\ ReportIdle
    /\ RestrictIdle
    /\ CookIdle

Resolve(p, r) ==
    /\ proto' = p
    /\ result' = r.ret
    /\ outcome' = IF r.raised THEN "raised" ELSE "returned"
    /\ sim' = r.sim
    /\ stage' = "resolved"
    /\ UNCHANGED <<name, q, qq, restrictVars, cookVars, reportVars, recipeVars, sessionVars, searchVars>>

ResolveBuilder ==
    /\ stage = "input"
    /\ \E r \in validate_ingredient(name, VALID_INGREDIENTS) : Resolve("builder", r)

ResolveFinder ==
    /\ stage = "input"
    /\ \E r \in validate_ingredient2(name) : Resolve("finder", r)

ResolveDishcovery ==
    /\ stage = "input"
    /\ \E r \in ingredient_valid(name) : Resolve("dishcovery", r)

ResolveNext == ResolveBuilder \/ ResolveFinder \/ ResolveDishcovery

SpecResolve == ResolveInit /\ [][ResolveNext]_vars

\* The normalized query of the resolved state, and the best score of the call.
Query == NormalizeBy(proto, name)
IsExact == Query \in Spelled(Catalog(proto))
BestScore == SetMax({WRatio(sim, c) : c \in Catalog(proto)})
BestNames == {c \in Catalog(proto) : WRatio(sim, c) = BestScore}

\* C1: when the normalized query is a member of the prototype's catalog, the resolver
\* returns Exact (valid, canonical = the normalized query, no suggestion) and the
\* fuzzy scorer is not called.
C1_ExactWithoutScore ==
    (stage = "resolved" /\ IsExact) =>
        /\ outcome = "returned"
        /\ result = <<TRUE, Query, None>>
        /\ sim = NoSim

\* An exact member typed with capitals, padding and a wide gap was resolved.
C1_Witness ==
    /\ stage = "resolved"
    /\ proto = "builder"
    /\ name = <<" ">> \o <<"S","o","y"," "," ","s","a","u","c","e">>
    /\ result = <<TRUE, Chars("soy sauce"), None>>

\* C2: for a non-empty normalized query that is no catalog member, with m the best
\* score over the catalog: m >= 90 accepts the query as a best-scoring name,
\* 75 <= m < 90 rejects it with a best-scoring name as the suggestion, m < 75 rejects
\* it with no suggestion; the same 90 and 75 in all three prototypes.
C2_FuzzyThresholds ==
    (stage = "resolved" /\ Query # <<>> /\ ~IsExact) =>
        /\ outcome = "returned"
        /\ sim \in Sims
        /\ BestScore >= 90 =>
              /\ result[1] = TRUE
              /\ result[2] \in Spelled(BestNames)
              /\ result[3] = None
        /\ (BestScore >= 75 /\ BestScore < 90) =>
              /\ result[1] = FALSE
              /\ result[2] = <<>>
              /\ result[3] \in Spelled(BestNames)
        /\ BestScore < 75 => result = <<FALSE, <<>>, None>>

\* A near miss scored exactly 90 was accepted by the finder as one of two tied names.
C2_Witness ==
    /\ stage = "resolved"
    /\ proto = "finder"
    /\ name = <<"t","o","m","a","t","o","e">>
    /\ sim = [top |-> {"tomato", "olive oil"}, hi |-> 90]
    /\ result = <<TRUE, Chars("olive oil"), None>>

\* C3: the resolver returns for every text and never raises; a query that normalizes
\* to the empty text is Rejected, and a query that is not accepted comes back as
\* Rejected or FuzzySuggested.
C3_NeverRaises ==
    stage = "resolved" =>
        /\ outcome = "returned"
        /\ Query = <<>> => result = <<FALSE, <<>>, None>>
        /\ result[1] = FALSE =>
              \/ result = <<FALSE, <<>>, None>>
              \/ result[2] = <<>> /\ result[3] \in Spelled(Catalog(proto))

\* A text of whitespace only was rejected.
C3_Witness ==
    /\ stage = "resolved"
    /\ name = <<" ", "\t">>
    /\ outcome = "returned"
    /\ result = <<FALSE, <<>>, None>>

\* C4: every result is exactly one MatchResult variant: valid implies a catalog
\* member as canonical and no suggestion; not valid implies an empty canonical; a
\* suggestion occurs only when not valid and is a catalog member.
C4_OneVariant ==
    (stage = "resolved" /\ outcome = "returned") =>
        /\ result[1] \in BOOLEAN
        /\ result[1] => (result[2] \in Spelled(Catalog(proto)) /\ result[3] = None)
        /\ ~result[1] => result[2] = <<>>
        /\ result[3] # None => (~result[1] /\ result[3] \in Spelled(Catalog(proto)))

\* Dishcovery rejected a text and suggested a catalog name.
C4_Witness ==
    /\ stage = "resolved"
    /\ proto = "dishcovery"
    /\ result = <<FALSE, <<>>, Chars("egg")>>

(***************************************************************************)
(* The restriction engine alone: apply_restrictions on a list of catalog   *)
(* ingredients, then on its own adjusted list.                             *)
(***************************************************************************)
MaxIngs == 3
MaxRestrictions == 2

\* The options of the sidebar multiselect (part_000 line 245).
RestrictionNames == {"vegan", "vegetarian", "dairy_free", "gluten_free", "nut_free"}

\* A multiselect value: chosen options in the order chosen, none twice.
RestrictionLists ==
    {rs \in SeqsUpTo(RestrictionNames, MaxRestrictions) :
        \A a, b \in 1..Len(rs) : a # b => rs[a] # rs[b]}

\* Ingredients of every kind the tables tell apart: replaced by a catalog name, by
\* another text, by a restriction-dependent name; removed; never forbidden.
SampleIngs == {"butter", "chicken", "egg", "pasta", "rice", "tofu"}

IngLists == SeqsUpTo(SampleIngs, MaxIngs) \cup {<<x>> : x \in VALID_INGREDIENTS}

RestrictInit ==
    /\ validated_ingredients \in IngLists
    /\ given = validated_ingredients
    /\ restrictions \in RestrictionLists
    /\ adj_ings = <<>>
    /\ notes = <<>>
    /\ again = <<>>
    /\ proto = "builder"
    /\ name = <<>>
    /\ q = <<>>
    /\ qq = <<>>
    /\ stage = "input"
    /\ ResolverIdle
    /\ SearchIdle
    /\ SessionIdle
    /\ RecipeIdle
    /\ ReportIdle
    /\ CookIdle

\* adj_ings, notes = apply_restrictions(validated_ingredients, restrictions)
ApplyRestrictions ==
    /\ stage = "input"
    /\ LET r == apply_restrictions(validated_ingredients, restrictions)
       IN  /\ validated_ingredients' = r.ings
           /\ adj_ings' = r.out
           /\ notes' = r.notes
    /\ stage' = "applied"
    /\ UNCHANGED <<proto, name, q, qq, resolverVars, given, restrictions, again, cookVars, reportVars, recipeVars, sessionVars, searchVars>>

\* apply_restrictions(adj_ings, restrictions): the engine on its own output.
ApplyAgain ==
    /\ stage = "applied"
    /\ LET r == apply_restrictions(adj_ings, restrictions)
       IN  /\ adj_ings' = r.ings
           /\ again' = <<[out |-> r.out, notes |-> r.notes]>>
    /\ stage' = "reapplied"
    /\ UNCHANGED <<proto, name, q, qq, resolverVars, validated_ingredients, given,
                   restrictions, notes, cookVars, reportVars, recipeVars, sessionVars, searchVars>>

RestrictNext == ApplyRestrictions \/ ApplyAgain

SpecRestrict == RestrictInit /\ [][RestrictNext]_vars

\* What the tables say of the input list, position by position.
Forbids == UNION {RESTRICTION_RULES[r].forbid : r \in Range(restrictions)}
\* The positions in restrictions of the restrictions with a SUBSTITUTIONS entry for x.
Entries(x) ==
    {k \in 1..Len(restrictions) :
        x \in DOMAIN SUBSTITUTIONS /\ restrictions[k] \in DOMAIN SUBSTITUTIONS[x]}
FirstEntry(x) == SUBSTITUTIONS[x][restrictions[SetMin(Entries(x))]]
IsForbidden(i) == given[i] \in Forbids
IsDropped(i) == IsForbidden(i) /\ Entries(given[i]) = {}
Survivors == {i \in 1..Len(given) : ~IsDropped(i)}
\* The position in the adjusted list of the surviving input position i.
Place(i) == Cardinality({k \in Survivors : k <= i})
ForbiddenPositions == {i \in 1..Len(given) : IsForbidden(i)}
\* The number of the log entry of the forbidden input position i.
Entry(i) == Cardinality({k \in ForbiddenPositions : k <= i})

\* C6: a forbidden ingredient is replaced by the SUBSTITUTIONS entry of the first
\* restriction, in the caller's order, that has an entry for it, and is dropped
\* when no active restriction has one; so chicken becomes tofu under
\* [vegan, vegetarian] and paneer under [vegetarian, vegan].
C6_FirstRestrictionWins ==
    stage # "input" =>
        /\ Len(adj_ings) = Cardinality(Survivors)
        /\ \A i \in ForbiddenPositions :
              IF Entries(given[i]) # {}
              THEN adj_ings[Place(i)] = FirstEntry(given[i])
              ELSE i \notin Survivors
        /\ (given = <<"chicken">> /\ restrictions = <<"vegan", "vegetarian">>)
              => adj_ings = <<"tofu">>
        /\ (given = <<"chicken">> /\ restrictions = <<"vegetarian", "vegan">>)
              => adj_ings = <<"paneer">>

\* Chicken was replaced under [vegetarian, vegan], next to an egg that was dropped.
C6_Witness ==
    /\ stage = "applied"
    /\ given = <<"egg", "chicken">>
    /\ restrictions = <<"vegetarian", "vegan">>
    /\ adj_ings = <<"paneer">>

\* C7: every ingredient that is not forbidden stays as it is and in place: the
\* adjusted list is the input with each forbidden element replaced at its position
\* or left out, the caller's list is not changed, and when nothing present is
\* forbidden the adjusted list is the input and the log is empty.
C7_FrameOfApply ==
    stage # "input" =>
        /\ Len(adj_ings) = Cardinality(Survivors)
        /\ \A i \in Survivors : ~IsForbidden(i) => adj_ings[Place(i)] = given[i]
        /\ validated_ingredients = given
        /\ ForbiddenPositions = {} => (adj_ings = given /\ notes = <<>>)

\* Rice and tofu kept their order around a dropped egg and a replaced butter.
C7_Witness ==
    /\ stage = "applied"
    /\ given = <<"rice", "egg", "tofu">>
    /\ restrictions = <<"vegan">>
    /\ adj_ings = <<"rice", "tofu">>
    /\ validated_ingredients = given

\* C8: the adjusted list holds no ingredient forbidden by an active restriction,
\* and apply_restrictions on the adjusted list returns it again with an empty log.
C8_SubstitutionIdempotent ==
    /\ stage # "input" => \A k \in 1..Len(adj_ings) : adj_ings[k] \notin Forbids
    /\ stage = "reapplied" => again = <<[out |-> adj_ings, notes |-> <<>>]>>

\* A list with a replacement and a removal went through the engine twice.
C8_Witness ==
    /\ stage = "reapplied"
    /\ given = <<"chicken", "pasta", "butter">>
    /\ restrictions = <<"gluten_free", "vegan">>
    /\ again = <<[out |-> <<"tofu", "olive oil">>, notes |-> <<>>]>>

\* C9: the log has one entry per forbidden element occurrence of the input, in
\* input order: Replaced with the original and the replacement when a substitution
\* was found, Removed otherwise; len(adjusted) = len(input) - number of Removed;
\* apply(["butter","chicken"], ["vegan"]) gives ["olive oil","tofu"] and
\* [Replaced(butter -> olive oil), Replaced(chicken -> tofu)].
C9_ChangeLog ==
    stage # "input" =>
        /\ Len(notes) = Cardinality(ForbiddenPositions)
        /\ \A i \in ForbiddenPositions :
              LET n == notes[Entry(i)]
              IN  /\ n.ing = given[i]
                  /\ IF Entries(given[i]) # {}
                     THEN n.kind = "Replaced" /\ n.sub = FirstEntry(given[i])
                     ELSE n.kind = "Removed"
        /\ Len(adj_ings) =
              Len(given) - Cardinality({k \in 1..Len(notes) : notes[k].kind = "Removed"})
        /\ (given = <<"butter", "chicken">> /\ restrictions = <<"vegan">>) =>
              /\ adj_ings = <<"olive oil", "tofu">>
              /\ notes = <<Replaced("butter", <<"vegan">>, "olive oil"),
                           Replaced("chicken", <<"vegan">>, "tofu")>>

\* The same forbidden ingredient twice: two entries, one per occurrence.
C9_Witness ==
    /\ stage = "applied"
    /\ given = <<"egg", "butter", "egg">>
    /\ restrictions = <<"vegan">>
    /\ Len(notes) = 3
    /\ notes[1].kind = "Removed" /\ notes[2].kind = "Replaced" /\ notes[3].kind = "Removed"

(***************************************************************************)
(* The sufficiency evaluator alone: need_more_for_cook on a list of        *)
(* catalog ingredients.                                                    *)
(***************************************************************************)
MaxCook == 4

\* An ingredient of each category, the three that count as fat, the items of two bad
\* combos and one with no category.
CookSample ==
    {"garlic", "tomato", "chicken", "pasta", "rice", "salt", "milk", "butter",
     "olive oil", "lemon"}

CookLists == SeqsUpTo(CookSample, MaxCook) \cup {<<x>> : x \in VALID_INGREDIENTS3}

CookInit ==
    /\ validated \in CookLists
    /\ enough = FALSE
    /\ reasons = <<>>
    /\ suggestions = <<>>
    /\ proto = "dishcovery"
    /\ name = <<>>
    /\ q = <<>>
    /\ qq = <<>>
    /\ stage = "input"
    /\ ResolverIdle
    /\ SearchIdle
    /\ SessionIdle
    /\ RecipeIdle
    /\ ReportIdle
    /\ RestrictIdle

\* enough, reasons, suggestions = need_more_for_cook(validated)
NeedMoreForCook ==
    /\ stage = "input"
    /\ proto = "dishcovery"
    /\ LET r == need_more_for_cook(validated)
       IN  /\ enough' = r.enough
           /\ reasons' = r.reasons
           /\ suggestions' = r.suggestions
    /\ stage' = "evaluated"
    /\ UNCHANGED <<proto, name, q, qq, resolverVars, restrictVars, validated, reportVars, recipeVars, sessionVars, searchVars>>

CookNext == NeedMoreForCook

SpecCook == CookInit /\ [][CookNext]_vars

\* The clauses in policy order, and the categories of each.
PolicyOrder == <<"needs_aromatic", "needs_protein", "needs_flavor", "needs_fat">>
ClauseCats ==
    "needs_aromatic" :> {"aromatic", "veg"} @@ "needs_protein" :> {"protein", "carb"}
    @@ "needs_flavor" :> {"flavor"} @@ "needs_fat" :> {"liquid", "fat"}
PolicyIndex(r) == CHOOSE k \in 1..Len(PolicyOrder) : PolicyOrder[k] = r
\* No ingredient of the list is in a category of the clause.
Uncovered(r) ==
    \A x \in Range(validated) :
        \A cat \in ClauseCats[r] \cap DOMAIN CATS : x \notin CATS[cat]

C11_ByCategoryOnly ==
    stage = "evaluated" =>
        \A r \in Range(PolicyOrder) : (r \in Range(reasons)) <=> Uncovered(r)

\* C11 amended: aromatic-or-veg, protein-or-carb and flavor are reported missing
\* exactly when no ingredient belongs to a category of the clause; the liquid/fat
\* clause is reported missing exactly when no ingredient belongs to its categories
\* and butter, which has no category, is not in the list.
C11_ByCategoryOrButter ==
    stage = "evaluated" =>
        /\ \A r \in {"needs_aromatic", "needs_protein", "needs_flavor"} :
              (r \in Range(reasons)) <=> Uncovered(r)
        /\ ("needs_fat" \in Range(reasons)) <=>
              (Uncovered("needs_fat") /\ "butter" \notin Range(validated))

\* Butter alone was evaluated: it is in no category, and liquid/fat is not missing.
C11_Witness ==
    /\ stage = "evaluated"
    /\ validated = <<"butter">>
    /\ \A cat \in DOMAIN CATS : "butter" \notin CATS[cat]
    /\ reasons = <<"needs_aromatic", "needs_protein", "needs_flavor">>

(***************************************************************************)
(* The sufficiency evaluators on a growing list: the validated list is     *)
(* evaluated, one more catalog ingredient is appended to it (the next slot *)
(* was filled), and the longer list is evaluated again.                    *)
(***************************************************************************)
MaxGrow == 4

\* supaniga3: an ingredient per clause and butter; supaniga2: one per category and
\* one of no category.
GrowSample3 == {"garlic", "chicken", "salt", "milk", "butter"}
GrowSample2 == {"tomato", "chicken", "rice", "cumin", "lemon"}

GrowInit ==
    /\ proto \in {"finder", "dishcovery"}
    /\ IF proto = "dishcovery"
       THEN validated \in SeqsUpTo(GrowSample3, MaxGrow) /\ validated_ings = <<>>
       ELSE validated_ings \in SeqsUpTo(GrowSample2, MaxGrow) /\ validated = <<>>
    /\ enough = FALSE
    /\ reasons = <<>>
    /\ suggestions = <<>>
    /\ have = <<>>
    /\ missing = <<>>
    /\ before = <<>>
    /\ name = <<>>
    /\ q = <<>>
    /\ qq = <<>>
    /\ stage = "input"
    /\ ResolverIdle
    /\ SearchIdle
    /\ SessionIdle
    /\ RecipeIdle
    /\ RestrictIdle

\* enough, have, missing = sufficiency_report(validated_ings)
SufficiencyReport ==
    /\ stage = "input"
    /\ proto = "finder"
    /\ LET r == sufficiency_report(validated_ings)
       IN  /\ enough' = r.ok
           /\ have' = r.have
           /\ missing' = r.missing
    /\ stage' = "evaluated"
    /\ UNCHANGED <<proto, name, q, qq, resolverVars, restrictVars, recipeVars, sessionVars, searchVars, validated, reasons,
                   suggestions, validated_ings, before>>

\* supaniga3: one more validated slot, then need_more_for_cook on the longer list.
AppendCook ==
    /\ stage = "evaluated"
    /\ proto = "dishcovery"
    /\ \E x \in VALID_INGREDIENTS3 :
          /\ validated' = Append(validated, x)
          /\ LET r == need_more_for_cook(Append(validated, x))
             IN  /\ enough' = r.enough
                 /\ reasons' = r.reasons
                 /\ suggestions' = r.suggestions
    /\ before' = <<[enough |-> enough, reasons |-> reasons, missing |-> missing]>>
    /\ stage' = "grown"
    /\ UNCHANGED <<proto, name, q, qq, resolverVars, restrictVars, recipeVars, sessionVars, searchVars, validated_ings, have,
                   missing>>

\* supaniga2: one more validated slot, then sufficiency_report on the longer list.
AppendReport ==
    /\ stage = "evaluated"
    /\ proto = "finder"
    /\ \E x \in VALID_INGREDIENTS2 :
          /\ validated_ings' = Append(validated_ings, x)
          /\ LET r == sufficiency_report(Append(validated_ings, x))
             IN  /\ enough' = r.ok
                 /\ have' = r.have
                 /\ missing' = r.missing
    /\ before' = <<[enough |-> enough, reasons |-> reasons, missing |-> missing]>>
    /\ stage' = "grown"
    /\ UNCHANGED <<proto, name, q, qq, resolverVars, restrictVars, recipeVars, sessionVars, searchVars, validated, reasons,
                   suggestions>>

GrowNext == NeedMoreForCook \/ SufficiencyReport \/ AppendCook \/ AppendReport

SpecGrow == GrowInit /\ [][GrowNext]_vars

\* The list before the last ingredient was appended, and that ingredient.
Shorter == IF proto = "dishcovery" THEN SubSeq(validated, 1, Len(validated) - 1)
           ELSE SubSeq(validated_ings, 1, Len(validated_ings) - 1)
Appended == IF proto = "dishcovery" THEN validated[Len(validated)]
            ELSE validated_ings[Len(validated_ings)]

\* C12: appending a catalog ingredient, one already in the list included, adds no
\* clause to the missing list of need_more_for_cook and raises no missing count of
\* sufficiency_report; a list that was enough stays enough.
C12_Monotonic ==
    stage = "grown" =>
        /\ before[1].enough => enough
        /\ proto = "dishcovery" => Range(reasons) \subseteq Range(before[1].reasons)
        /\ proto = "finder" =>
              \A k \in DOMAIN MIN_REQUIRED : missing[k] <= before[1].missing[k]

\* A protein was appended to a supaniga2 list that already held it: the count goes
\* to two and nothing becomes missing.
C12_Witness ==
    /\ stage = "grown"
    /\ proto = "finder"
    /\ Appended \in Range(Shorter)
    /\ have["protein"] = 2
    /\ before[1].missing["protein"] = 0
    /\ missing["protein"] = 0

(***************************************************************************)
(* Cuisine inference alone: infer_cuisine on a list of ingredients.        *)
(***************************************************************************)
MaxDish == 3

\* Ingredients of the Indian and Middle Eastern profiles, two of several profiles,
\* one profiled twice at different weights elsewhere, and two of no profile.
DishSample ==
    {"garam masala", "basmati rice", "tahini", "yogurt", "cumin", "soy sauce",
     "tomato", "parmesan", "egg"}

\* Every name a profile or the catalog knows, alone, and the short lists.
DishLists ==
    SeqsUpTo(DishSample, MaxDish)
    \cup {<<x>> : x \in VALID_INGREDIENTS \cup UNION {DOMAIN CUISINE_HINTS[c] : c \in DOMAIN CUISINE_HINTS}}

CuisineInit ==
    /\ adj_ings \in DishLists
    /\ validated_ingredients = <<>>
    /\ given = <<>>
    /\ restrictions = <<>>
    /\ notes = <<>>
    /\ again = <<>>
    /\ RecipeIdle
    /\ proto = "builder"
    /\ name = <<>>
    /\ q = <<>>
    /\ qq = <<>>
    /\ stage = "input"
    /\ ResolverIdle
    /\ SearchIdle
    /\ SessionIdle
    /\ ReportIdle
    /\ CookIdle

\* cuisine, score = infer_cuisine(adj_ings)
InferCuisine ==
    /\ stage = "input"
    /\ LET r == infer_cuisine(adj_ings)
       IN  /\ cuisine' = r.cuisine
           /\ score' = r.score
    /\ stage' = "inferred"
    /\ UNCHANGED <<proto, name, q, qq, resolverVars, restrictVars, cookVars, reportVars,
                   sessionVars, searchVars,
                   diet_mode, shown, confident, title, steps, header_flag, origin>>

CuisineNext == InferCuisine

SpecCuisine == CuisineInit /\ [][CuisineNext]_vars

\* The profile score of a cuisine: the weights of the profile's ingredients that
\* occur in the list, each counted once.
RECURSIVE WeightOf(_, _)
WeightOf(c, S) ==
    IF S = {} THEN 0
    ELSE LET x == CHOOSE y \in S : TRUE
         IN  CUISINE_HINTS[c][x] + WeightOf(c, S \ {x})
ProfileScore(c) == WeightOf(c, DOMAIN CUISINE_HINTS[c] \cap Range(adj_ings))

\* C13: infer_cuisine returns a cuisine whose profile score is the largest, with
\* that score, repeats of an ingredient counted once; (none, 0) when no ingredient
\* matches any profile; ["garam masala", "basmati rice"] gives ("Indian", 4).
C13_BestProfile ==
    stage = "inferred" =>
        /\ IF \A c \in DOMAIN CUISINE_HINTS : ProfileScore(c) = 0
           THEN cuisine = NoName /\ score = 0
           ELSE /\ cuisine \in DOMAIN CUISINE_HINTS
                /\ score = ProfileScore(cuisine)
                /\ \A c \in DOMAIN CUISINE_HINTS : ProfileScore(c) <= score
        /\ adj_ings = <<"garam masala", "basmati rice">> =>
              (cuisine = "Indian" /\ score = 4)

\* A list naming garam masala twice was inferred Indian at the weight of one.
C13_Witness ==
    /\ stage = "inferred"
    /\ adj_ings = <<"garam masala", "garam masala", "egg">>
    /\ cuisine = "Indian"
    /\ score = 2

(***************************************************************************)
(* The recipe column of part_000 (lines 303-328) on a validated list, the  *)
(* sidebar's restrictions and its diet-mode checkbox.                      *)
(***************************************************************************)
\* Multiselect values: nothing chosen, one that substitutes, one that removes eggs
\* and dairy without a substitute for the egg.
RecipeRestrictions == {<<>>, <<"dairy_free">>, <<"vegan">>}

RecipeInit ==
    /\ validated_ingredients \in SeqsUpTo(DishSample, MaxDish)
    /\ given = validated_ingredients
    /\ restrictions \in RecipeRestrictions
    /\ diet_mode \in BOOLEAN
    /\ adj_ings = <<>>
    /\ notes = <<>>
    /\ again = <<>>
    /\ shown = "none"
    /\ cuisine = NoName
    /\ score = 0
    /\ confident = FALSE
    /\ title = <<>>
    /\ steps = <<>>
    /\ header_flag = <<>>
    /\ origin = <<>>
    /\ proto = "builder"
    /\ name = <<>>
    /\ q = <<>>
    /\ qq = <<>>
    /\ stage = "input"
    /\ ResolverIdle
    /\ SearchIdle
    /\ SessionIdle
    /\ ReportIdle
    /\ CookIdle

\* Lines 303-304: fewer than two validated ingredients, only the hint is shown.
RecipeInfo ==
    /\ stage = "input"
    /\ Len(validated_ingredients) < 2
    /\ shown' = "info"
    /\ stage' = "generated"
    /\ UNCHANGED <<proto, name, q, qq, resolverVars, restrictVars, cookVars, reportVars,
                   sessionVars, searchVars,
                   diet_mode, cuisine, score, confident, title, steps, header_flag,
                   origin>>

\* Lines 307-310: the restrictions left nothing, only the error is shown.
RecipeError ==
    /\ stage = "input"
    /\ Len(validated_ingredients) >= 2
    /\ LET r == apply_restrictions(validated_ingredients, restrictions)
       IN  /\ r.out = <<>>
           /\ validated_ingredients' = r.ings
           /\ adj_ings' = r.out
           /\ notes' = r.notes
    /\ shown' = "error"
    /\ stage' = "generated"
    /\ UNCHANGED <<proto, name, q, qq, resolverVars, given, restrictions, again, cookVars,
                   sessionVars, searchVars,
                   reportVars, diet_mode, cuisine, score, confident, title, steps,
                   header_flag, origin>>

\* Lines 307-328: restrictions, cuisine, confidence, title, steps, header line.
GenerateRecipe ==
    /\ stage = "input"
    /\ Len(validated_ingredients) >= 2
    /\ LET r == apply_restrictions(validated_ingredients, restrictions)
           inf == infer_cuisine(r.out)
           conf == confident_rule(inf.cuisine, inf.score)
           hd == header_line(inf.cuisine, conf)
       IN  /\ r.out # <<>>
           /\ validated_ingredients' = r.ings
           /\ adj_ings' = r.out
           /\ notes' = r.notes
           /\ cuisine' = inf.cuisine
           /\ score' = inf.score
           /\ confident' = conf
           /\ title' = dish_title(r.out, inf.cuisine, conf)
           /\ steps' = generate_steps(r.out, IF conf THEN inf.cuisine ELSE NoName, diet_mode)
           /\ header_flag' = hd.header_flag
           /\ origin' = hd.origin
    /\ shown' = "recipe"
    /\ stage' = "generated"
    /\ UNCHANGED <<proto, name, q, qq, resolverVars, given, restrictions, again, cookVars,
                   sessionVars, searchVars,
                   reportVars, diet_mode>>

RecipeNext == RecipeInfo \/ RecipeError \/ GenerateRecipe

SpecRecipe == RecipeInit /\ [][RecipeNext]_vars

\* The steps end with the general seasoning step: none is a cuisine's own.
GeneralSteps == Len(steps) = 5 /\ steps[5] = "Season to taste"

\* C14: the inference is confident exactly when a cuisine was selected and its score
\* is at least 3; when it is not confident the cuisine name is not in the title and
\* selects no cuisine-specific steps.
C14_ConfidenceThreshold ==
    (stage = "generated" /\ shown = "recipe") =>
        /\ confident <=> (cuisine # NoName /\ score >= 3)
        /\ ~confident => (title.cuisine = "" /\ GeneralSteps)
        /\ confident => title.cuisine = cuisine

\* A recipe for an Indian list scoring 2, below the threshold: plain title, general
\* steps although the list has the garam masala the Indian steps ask for.
C14_Witness ==
    /\ stage = "generated"
    /\ shown = "recipe"
    /\ cuisine = "Indian"
    /\ score = 2
    /\ "garam masala" \in Range(adj_ings)
    /\ ~confident
    /\ title.cuisine = ""
    /\ GeneralSteps

\* C15: the flag and the Origin line appear only when the inference is confident and
\* the cuisine has a country code; a Middle Eastern result gets none whatever its
\* score, and no cuisine gets one at a score below 3.
C15_FlagOnlyConfidentCountry ==
    (stage = "generated" /\ shown = "recipe") =>
        /\ (origin # <<>> \/ header_flag # <<>>) =>
              /\ confident
              /\ score >= 3
              /\ cuisine \in DOMAIN CUISINE_COUNTRY
              /\ CUISINE_COUNTRY[cuisine][1] # None
              /\ Len(header_flag) = 4
              /\ origin = <<[flag |-> header_flag,
                             country_name |-> CUISINE_COUNTRY[cuisine][2]]>>
        /\ (confident /\ cuisine # "Middle Eastern") => origin # <<>>
        /\ cuisine = "Middle Eastern" => (origin = <<>> /\ header_flag = <<>>)
        /\ score < 3 => (origin = <<>> /\ header_flag = <<>>)

\* A confident Middle Eastern result, score 3, without flag or Origin line.
C15_Witness ==
    /\ stage = "generated"
    /\ shown = "recipe"
    /\ cuisine = "Middle Eastern"
    /\ score >= 3
    /\ confident
    /\ origin = <<>>
    /\ header_flag = <<>>

\* The positions of a sequence holding a value for the first time, and the values
\* at those positions in order.
FirstPositions(xs) == {i \in 1..Len(xs) : \A j \in 1..(i - 1) : xs[j] # xs[i]}
FirstSeen(xs) ==
    [k \in 1..Cardinality(FirstPositions(xs)) |->
        xs[CHOOSE i \in FirstPositions(xs) :
              Cardinality({j \in FirstPositions(xs) : j <= i}) = k]]
\* The bad combos the list contains, by position in BAD_COMBOS.
ContainedCombos == {k \in 1..Len(BAD_COMBOS) : BAD_COMBOS[k] \subseteq Range(validated)}
\* The remedy lists of the missing clauses, one after the other in reasons order.
ClauseRemedies ==
    LET at == UNION {{<<k, i>> : i \in 1..Len(SUGGESTIONS[reasons[k]])} :
                        k \in 1..Len(reasons)}
        before_(p, r) == p[1] < r[1] \/ (p[1] = r[1] /\ p[2] < r[2])
    IN  [n \in 1..Cardinality(at) |->
            LET p == CHOOSE r \in at : Cardinality({o \in at : before_(o, r)}) = n - 1
            IN  SUGGESTIONS[reasons[p[1]]][p[2]]]

\* C16: the suggestion list names nothing twice and is the bad-combo remedy list (if
\* a bad combo is in the list) followed by the remedy list of each missing clause in
\* missing order, every later repeat removed.
C16_SuggestionsDeduplicated ==
    stage = "evaluated" =>
        /\ \A a, b \in 1..Len(suggestions) : a # b => suggestions[a] # suggestions[b]
        /\ suggestions =
              FirstSeen((IF ContainedCombos # {} THEN SUGGESTIONS["milk+pasta"] ELSE <<>>)
                        \o ClauseRemedies)

\* Milk and pasta: garlic and parmesan are a bad-combo remedy and a clause remedy,
\* and suggested once, where the bad-combo list has them.
C16_Witness ==
    /\ stage = "evaluated"
    /\ validated = <<"milk", "pasta">>
    /\ reasons = <<"needs_aromatic", "needs_flavor">>
    /\ suggestions = <<"olive oil", "garlic", "parmesan", "black pepper", "onion",
                       "salt", "pepper", "soy sauce", "tomato paste">>

\* The SUGGESTIONS key naming each bad combo, in the order of BAD_COMBOS.
ComboKeys == <<"milk+pasta", "rice+milk", "tuna+milk">>

\* C17: the bad-combo remedies are per combo and come first: when a bad combo is in
\* the list, the suggestions are the remedy list attached to a contained combo, then
\* the clause remedies; when none is, they are the clause remedies alone.
C17_PerComboRemedy ==
    stage = "evaluated" =>
        IF ContainedCombos = {} THEN suggestions = FirstSeen(ClauseRemedies)
        ELSE \E k \in ContainedCombos :
                suggestions = FirstSeen(suggestions_get(ComboKeys[k]) \o ClauseRemedies)

\* C18: every ingredient among the suggestions is in VALID_INGREDIENTS of supaniga3.
C18_SuggestionsInCatalog ==
    stage = "evaluated" => Range(suggestions) \subseteq VALID_INGREDIENTS3

(***************************************************************************)
(* A session of each prototype: script runs, each caused by the user       *)
(* changing the text of one drawn slot, pressing supaniga2's button, both, *)
(* or touching nothing of the slots.                                       *)
(***************************************************************************)
MaxSlots == 3

\* A text the resolver has to match by similarity.
FuzzyText == <<"e", "g">>

\* What the user leaves in a slot: nothing, a blank, a catalog name, that name
\* capitalised after a space, and a text that is no catalog name.
SlotTexts == {<<>>, <<" ">>, Chars("egg"), <<" ", "E", "g", "g">>, FuzzyText}

\* The answers a server process can give: fixed by the catalog for all texts but
\* the one matched by similarity, where any outcome of the resolver may be the one.
Oracles(p) ==
    {[t \in SlotTexts |->
         IF t = FuzzyText THEN a ELSE (CHOOSE r \in Validate(p, t) : TRUE).ret] :
       a \in {r.ret : r \in {x \in Validate(p, FuzzyText) : ~x.raised}}}

SessionInit ==
    /\ proto \in Prototypes
    /\ answers \in Oracles(proto)
    /\ ingredients_raw = <<<<>>>>
    /\ ingredients_valid = <<FALSE>>
    /\ rendered = 0
    /\ slot_made = <<"first">>
    /\ event = <<>>
    /\ prev = <<>>
    /\ restrictions \in (IF proto = "builder" THEN RecipeRestrictions ELSE {<<>>})
    /\ secrets \in (IF proto = "finder" THEN SUBSET {"spoonacular", "edamam"} ELSE {{}})
    /\ tips = <<>>
    /\ can_search = FALSE
    /\ searched = "none"
    /\ proceed = <<>>
    /\ panel = "none"
    /\ validated_ingredients = <<>>
    /\ given = <<>>
    /\ adj_ings = <<>>
    /\ notes = <<>>
    /\ again = <<>>
    /\ name = <<>>
    /\ q = <<>>
    /\ qq = <<>>
    /\ stage = "start"
    /\ ResolverIdle
    /\ RecipeIdle
    /\ ReportIdle
    /\ CookIdle

\* What can cause a script run of prototype p now: only a drawn slot can be edited,
\* and only supaniga2, once drawn, has the button.
Events(p) ==
    LET presses == IF p = "finder" /\ rendered > 0 THEN BOOLEAN ELSE {FALSE}
    IN  {[idx |-> 0, text |-> <<>>, pressed |-> b] : b \in presses}
        \cup UNION {{[idx |-> i, text |-> t, pressed |-> b] :
                        t \in SlotTexts \ {ingredients_raw[i]}, b \in presses} :
                    i \in 1..rendered}

\* The slots part of a script run: every slot's input holds the slot's text, or what
\* the user has just typed; the slots are drawn, and the run is recorded.
SlotPass(p, ev) ==
    LET n == Len(ingredients_raw)
        texts == [i \in 1..n |-> IF i = ev.idx THEN ev.text ELSE ingredients_raw[i]]
    IN  /\ \E d \in {draw_slots(p, ingredients_raw, ingredients_valid, texts, ev.pressed)} :
              /\ ingredients_raw' = d.raw
              /\ ingredients_valid' = d.valid
        /\ rendered' = n
        /\ slot_made' =
              [i \in 1..n |-> IF i = ev.idx THEN "typed" ELSE slot_made[i]]
              \o [j \in 1..(Len(ingredients_raw') - n) |->
                     IF ev.pressed /\ j = Len(ingredients_raw') - n THEN "button"
                     ELSE "growth"]
        /\ event' = ev
        /\ prev' = <<[raw |-> ingredients_raw, valid |-> ingredients_valid]>>
        /\ stage' = "passed"

\* A script run of part_000: slots, validated list, recipe column.
PassBuilder ==
    /\ stage \in {"start", "passed"}
    /\ proto = "builder"
    /\ Len(ingredients_raw) < MaxSlots
    /\ \E ev \in Events("builder") : SlotPass("builder", ev)
    /\ \E c \in {recipe_column(consolidate("builder", ingredients_raw', ingredients_valid'),
                                restrictions, diet_mode)} :
           /\ validated_ingredients' = c.ings
           /\ adj_ings' = c.adj_ings
           /\ notes' = c.notes
           /\ shown' = c.shown
           /\ cuisine' = c.cuisine
           /\ score' = c.score
           /\ confident' = c.confident
           /\ title' = c.title
           /\ steps' = c.steps
           /\ header_flag' = c.header_flag
           /\ origin' = c.origin
    /\ UNCHANGED <<proto, name, q, qq, resolverVars, given, restrictions, again, cookVars,
                   reportVars, diet_mode, answers, searchVars>>

\* A script run of supaniga2: slots, button, validated list, sufficiency report,
\* tips and search gate.
PassFinder ==
    /\ stage \in {"start", "passed"}
    /\ proto = "finder"
    /\ Len(ingredients_raw) < MaxSlots
    /\ \E ev \in Events("finder") : SlotPass("finder", ev)
    /\ validated_ings' = consolidate("finder", ingredients_raw', ingredients_valid')
    /\ \E g \in {search_gate(validated_ings', secrets)} :
           /\ enough' = g.enough
           /\ have' = g.have
           /\ missing' = g.missing
           /\ tips' = g.tips
           /\ can_search' = g.can_search
           /\ searched' = g.searched
    /\ UNCHANGED <<proto, name, q, qq, resolverVars, restrictVars, validated, reasons,
                   suggestions, before, recipeVars, answers, secrets, proceed, panel>>

\* A script run of supaniga3: slots, validated list, decision block and Add More
\* panel. The toggle keeps its value only from a run that drew it, and the user may
\* have flipped it.
PassDishcovery ==
    /\ stage \in {"start", "passed"}
    /\ proto = "dishcovery"
    /\ Len(ingredients_raw) < MaxSlots
    /\ \E ev \in Events("dishcovery") : SlotPass("dishcovery", ev)
    /\ validated' = consolidate("dishcovery", ingredients_raw', ingredients_valid')
    /\ \E toggle \in (IF proceed = <<>> THEN {FALSE} ELSE BOOLEAN) :
          \E d \in {decide(validated', toggle)} :
              /\ enough' = d.enough
              /\ reasons' = d.reasons
              /\ suggestions' = d.suggestions
              /\ proceed' = d.proceed
              /\ searched' = d.searched
              /\ panel' = d.panel
    /\ UNCHANGED <<proto, name, q, qq, resolverVars, restrictVars, reportVars, recipeVars,
                   answers, secrets, tips, can_search>>

SessionNext == PassBuilder \/ PassFinder \/ PassDishcovery

SpecSession == SessionInit /\ [][SessionNext]_vars

\* The slots when the last run began, and whether the last of them then held text
\* that is not empty and resolves as valid.
SlotsBefore == Len(prev[1].raw)
LastWasValid ==
    /\ ingredients_raw[SlotsBefore] # <<>>
    /\ answers[ingredients_raw[SlotsBefore]][1]

TrailingEmpty ==
    {i \in 1..Len(ingredients_raw) :
        \A j \in i..Len(ingredients_raw) : ingredients_raw[j] = <<>>}

\* C20: a run in which no slot text changed and no button was pressed leaves the
\* slots and their validity flags as they were; the sequence never ends in more than
\* one empty slot that growth appended and nobody has typed in.
C20_PassIdempotent ==
    stage = "passed" =>
        /\ (event.idx = 0 /\ ~event.pressed) =>
              /\ ingredients_raw = prev[1].raw
              /\ ingredients_valid = prev[1].valid
        /\ Cardinality({i \in TrailingEmpty : slot_made[i] = "growth"}) <= 1

\* A run without any change right after the run that appended a slot for a valid
\* last slot: the appended slot is drawn for the first time and nothing is appended.
C20_Witness ==
    /\ stage = "passed"
    /\ event.idx = 0
    /\ ~event.pressed
    /\ Len(ingredients_raw) = 2
    /\ rendered = 2
    /\ ingredients_valid = <<TRUE, FALSE>>
    /\ slot_made = <<"typed", "growth">>
    /\ ingredients_raw = prev[1].raw

\* The tables of part_000 refer only to catalog ingredients, and no replacement is
\* itself forbidden under the restriction that triggers it.
ReferentialIntegrity ==
    /\ DOMAIN SUBSTITUTIONS \subseteq VALID_INGREDIENTS
    /\ \A k \in DOMAIN SUBSTITUTIONS : \A r \in DOMAIN SUBSTITUTIONS[k] :
          /\ SUBSTITUTIONS[k][r] \in VALID_INGREDIENTS
          /\ r \in DOMAIN RESTRICTION_RULES =>
                SUBSTITUTIONS[k][r] \notin RESTRICTION_RULES[r].forbid
    /\ \A r \in DOMAIN RESTRICTION_RULES : RESTRICTION_RULES[r].forbid \subseteq VALID_INGREDIENTS
    /\ \A c \in DOMAIN CUISINE_HINTS : DOMAIN CUISINE_HINTS[c] \subseteq VALID_INGREDIENTS

\* C21: referential integrity of the configuration is enforced before any request is
\* served: part_000 completes a script run only if every ingredient its
\* SUBSTITUTIONS, RESTRICTION_RULES and CUISINE_HINTS name is in VALID_INGREDIENTS and
\* no replacement is forbidden under its own restriction.
C21_IntegrityBeforeServing ==
    (proto = "builder" /\ stage = "passed") => ReferentialIntegrity

(***************************************************************************)
(* The search gate of supaniga2 alone, on a validated list and the keys    *)
(* the deployment has.                                                     *)
(***************************************************************************)
GateInit ==
    /\ validated_ings \in SeqsUpTo(GrowSample2, MaxGrow)
    /\ secrets \in SUBSET {"spoonacular", "edamam"}
    /\ tips = <<>>
    /\ can_search = FALSE
    /\ searched = "none"
    /\ proceed = <<>>
    /\ panel = "none"
    /\ have = <<>>
    /\ missing = <<>>
    /\ before = <<>>
    /\ proto = "finder"
    /\ name = <<>>
    /\ q = <<>>
    /\ qq = <<>>
    /\ stage = "input"
    /\ RecipeIdle
    /\ SessionIdle
    /\ ResolverIdle
    /\ RestrictIdle
    /\ CookIdle

\* Lines 301-336 on the validated list.
SearchGate ==
    /\ stage = "input"
    /\ \E g \in {search_gate(validated_ings, secrets)} :
           /\ enough' = g.enough
           /\ have' = g.have
           /\ missing' = g.missing
           /\ tips' = g.tips
           /\ can_search' = g.can_search
           /\ searched' = g.searched
    /\ stage' = "gated"
    /\ UNCHANGED <<proto, name, q, qq, resolverVars, restrictVars, validated, reasons,
                   suggestions, validated_ings, before, recipeVars, sessionVars, secrets,
                   proceed, panel>>

GateNext == SearchGate

SpecGate == GateInit /\ [][GateNext]_vars

\* The categories of supaniga2 none of the validated ingredients is in.
Uncategorized == {k \in DOMAIN CATEGORIES : Range(validated_ings) \cap CATEGORIES[k] = {}}

\* C22: supaniga2 sends a search only if the validated list has a protein, a carb, a
\* flavor and a veg ingredient and at least 3 entries; when a category is missing no
\* search is sent and the tips are for exactly the missing categories.
C22_SearchOnlyWhenSufficient ==
    stage = "gated" =>
        /\ searched # "none" => (Uncategorized = {} /\ Len(validated_ings) >= 3)
        /\ Uncategorized # {} =>
              /\ searched = "none"
              /\ ~can_search
              /\ Range(tips) = Uncategorized
              /\ Len(tips) = Cardinality(Uncategorized)

\* A search was sent for a list of all four categories; the deployment has both keys
\* and Spoonacular is taken.
C22_Witness ==
    /\ stage = "gated"
    /\ secrets = {"spoonacular", "edamam"}
    /\ validated_ings = <<"chicken", "rice", "cumin", "tomato">>
    /\ can_search
    /\ searched = "spoonacular"
    /\ tips = <<>>

\* C23: every supaniga3 run that reaches the Add More panel, the first of a session
\* included, reads a suggestions list that need_more_for_cook assigned earlier in the
\* same run.
C23_SuggestionsAssigned ==
    (proto = "dishcovery" /\ stage = "passed" /\ panel # "stopped") =>
        (panel = "read" /\ suggestions # Unassigned)

\* C24: in a session the lists ingredients_raw and ingredients_valid are equally
\* long, at least one slot long and never shorter after a run than before it, and a
\* slot is flagged valid only if its text is not blank and the resolver accepts it.
C24_SlotInvariant ==
    stage \in {"start", "passed"} =>
        /\ Len(ingredients_raw) = Len(ingredients_valid)
        /\ Len(ingredients_raw) >= 1
        /\ stage = "passed" =>
              /\ Len(ingredients_raw) >= Len(prev[1].raw)
              /\ Len(prev[1].raw) = Len(prev[1].valid)
        /\ \A i \in 1..Len(ingredients_valid) :
              ingredients_valid[i] =>
                  /\ \E j \in 1..Len(ingredients_raw[i]) : ingredients_raw[i][j] \notin Whitespace
                  /\ answers[ingredients_raw[i]][1]

\* The first slot was valid when the run began, which is why a second slot exists;
\* it holds a blank now and is flagged invalid, and no slot was taken away.
C24_Witness ==
    /\ stage = "passed"
    /\ prev[1].valid = <<TRUE, FALSE>>
    /\ ingredients_raw = <<<<" ">>, FuzzyText>>
    /\ ingredients_valid = <<FALSE, FALSE>>

\* The list a run accumulated, under the name the prototype gives it.
Accumulated ==
    CASE proto = "builder" -> validated_ingredients
      [] proto = "finder" -> validated_ings
      [] proto = "dishcovery" -> validated
\* The slots flagged valid, and the k-th of them.
ValidSlots == {i \in 1..Len(ingredients_valid) : ingredients_valid[i]}
ValidSlot(k) == CHOOSE i \in ValidSlots : Cardinality({j \in ValidSlots : j <= i}) = k

\* C25: the list a run accumulates has one entry per slot flagged valid, in slot
\* order, repeats kept; every entry is a catalog member, the canonical name the
\* resolver returns for the slot's text: the normalized text when that is a catalog
\* name, the best catalog match otherwise.
C25_AccumulatedCanonical ==
    stage = "passed" =>
        /\ Len(Accumulated) = Cardinality(ValidSlots)
        /\ \A k \in 1..Len(Accumulated) :
              LET text == ingredients_raw[ValidSlot(k)]
              IN  /\ Accumulated[k] \in Catalog(proto)
                  /\ Chars(Accumulated[k]) = answers[text][2]
                  /\ NormalizeBy(proto, text) \in Spelled(Catalog(proto)) =>
                        Chars(Accumulated[k]) = NormalizeBy(proto, text)

\* The first slot's text was accepted by similarity as egg and the second spells
\* egg with a capital after a blank: the list has egg twice, in slot order.
C25_Witness ==
    /\ stage = "passed"
    /\ ingredients_raw = <<FuzzyText, <<" ", "E", "g", "g">>, <<>>>>
    /\ ingredients_valid = <<TRUE, TRUE, FALSE>>
    /\ Accumulated = <<"egg", "egg">>

====
